---------------------------- MODULE Spec2Model ----------------------------
(***************************************************************************)
(* A model of migrate2gitlfs.py: the commit replay engine (replayCommits), *)
(* the tag replayer (replayCommitTags) and the helpers they use.           *)
(*                                                                         *)
(* Text (paths, file contents, messages, names) is a sequence of           *)
(* one-character strings, so that str.replace, os.path.join and the        *)
(* formatting of numbers act on characters as they do in the program.      *)
(* The file system is a function from absolute paths of regular files to   *)
(* their contents; a directory exists exactly when a file lies below it    *)
(* (every unlink and move of the program is followed by os.removedirs,     *)
(* and a git working tree holds no empty directory).                       *)
(***************************************************************************)
EXTENDS Integers, Sequences, FiniteSets, TLC

(***************************************************************************)
(* Bounds of the model.                                                    *)
(***************************************************************************)
\* the longest source history replayed
MaxCommits == 3
\* the most entries one diff between adjacent commits holds
MaxChanges == 1
\* the most tags the cloned repository holds
MaxTags == 2

(***************************************************************************)
(* Text.                                                                   *)
(***************************************************************************)
RECURSIVE StrReplace(_, _, _)
\* str.replace / bytes.replace: every non-overlapping occurrence, left to right
StrReplace(s, search, replacement) ==
  IF Len(search) = 0
    THEN IF Len(s) = 0 THEN replacement
         ELSE replacement \o <<Head(s)>> \o StrReplace(Tail(s), search, replacement)
  ELSE IF Len(s) < Len(search) THEN s
  ELSE IF SubSeq(s, 1, Len(search)) = search
    THEN replacement \o StrReplace(SubSeq(s, Len(search) + 1, Len(s)), search, replacement)
  ELSE <<Head(s)>> \o StrReplace(Tail(s), search, replacement)

DigitChars == <<"0", "1", "2", "3", "4", "5", "6", "7", "8", "9">>

RECURSIVE NatToStr(_)
NatToStr(k) ==
  IF k < 10 THEN <<DigitChars[k + 1]>>
  ELSE NatToStr(k \div 10) \o <<DigitChars[(k % 10) + 1]>>

\* f"{i}" of an int
IntToStr(i) == IF i < 0 THEN <<"-">> \o NatToStr(-i) ELSE NatToStr(i)

IsDigit(c) == \E d \in 1..10 : DigitChars[d] = c

DigitValue(c) == (CHOOSE d \in 1..10 : DigitChars[d] = c) - 1

RECURSIVE StrToNat(_)
StrToNat(s) ==
  IF Len(s) = 0 THEN 0
  ELSE 10 * StrToNat(SubSeq(s, 1, Len(s) - 1)) + DigitValue(s[Len(s)])

\* the orders in which the members of a finite set can be enumerated
Perms(S) ==
  { s \in [1..Cardinality(S) -> S] :
      \A i, j \in 1..Cardinality(S) : i # j => s[i] # s[j] }

\* the text sub occurs in the text s: Python's `sub in s`
Contains(s, sub) ==
  \E i \in 1..(Len(s) - Len(sub) + 1) : SubSeq(s, i, i + Len(sub) - 1) = sub

\* s.split(sep) for a separator of one character
RECURSIVE split(_, _)
split(s, sep) ==
  IF \E i \in 1..Len(s) : s[i] = sep
    THEN LET i == CHOOSE k \in 1..Len(s) :
                    s[k] = sep /\ \A j \in 1..(k - 1) : s[j] # sep
         IN <<SubSeq(s, 1, i - 1)>> \o split(SubSeq(s, i + 1, Len(s)), sep)
    ELSE <<s>>

\* sep.join(lines) for a separator of one character
RECURSIVE StrJoin(_, _)
StrJoin(lines, sep) ==
  IF lines = <<>> THEN <<>>
  ELSE IF Len(lines) = 1 THEN lines[1]
  ELSE lines[1] \o <<sep>> \o StrJoin(Tail(lines), sep)

\* the rank of a character among the characters of the texts that get
\* sorted, by rising code point
CodeRank(c) ==
  LET order == <<"\n", " ", "#", "%", "*", ".", "/", "a", "b", "c", "d", "s", "x">>
  IN CHOOSE i \in 1..Len(order) : order[i] = c

\* a <= b for two Python strings: by code point, a prefix before the longer
StrLessEq(a, b) ==
  \/ \E i \in 1..Len(a) :
       /\ i <= Len(b)
       /\ SubSeq(a, 1, i - 1) = SubSeq(b, 1, i - 1)
       /\ CodeRank(a[i]) < CodeRank(b[i])
  \/ /\ Len(a) <= Len(b)
     /\ SubSeq(b, 1, Len(a)) = a

\* sorted(lines) for a list of strings
RECURSIVE SortedInsert(_, _)
SortedInsert(line, lines) ==
  IF lines = <<>> THEN <<line>>
  ELSE IF StrLessEq(line, Head(lines)) THEN <<line>> \o lines
  ELSE <<Head(lines)>> \o SortedInsert(line, Tail(lines))

RECURSIVE sorted(_)
sorted(lines) ==
  IF lines = <<>> THEN <<>> ELSE SortedInsert(Head(lines), sorted(Tail(lines)))

(***************************************************************************)
(* The attribute texts.                                                    *)
(***************************************************************************)
KW_NONE == <<"n", "o", "n", "e">>
KW_DEFAULT == <<"d", "e", "f", "a", "u", "l", "t">>

\* the default patterns: one extension stands for the list
GITATTRIBUTES_DEFAULT_LFS_PATTERNS == <<"b">>

\* the width {ext:8s} pads a pattern to
PatternWidth == 8

\* the attribute line of one extension or pattern
\* an extension becomes *.ext; a pattern or a path is kept as it is
PatternOf(ext) ==
  IF \A i \in 1..Len(ext) : ext[i] \notin {"*", "/"}
    THEN <<"*", ".">> \o ext ELSE ext

\* f"{ext:8s} filter=lfs diff=lfs merge=lfs binary": the pattern padded with
\* spaces, then the attributes, for which the word "lfs" stands
AttributeLine(ext) ==
  PatternOf(ext) \o [ i \in 1..(PatternWidth - Len(PatternOf(ext))) |-> " " ]
                \o <<" ", "l", "f", "s">>

\* gitAttributesLfsFromPatterns for a text of one pattern a line: empty lines
\* and comments are kept as they are
CompilePatterns(patternsString) ==
  LET lines == split(patternsString, "\n")
      Compiled(line) == IF line = <<>> \/ Head(line) = "#" THEN line
                        ELSE AttributeLine(line)
  IN StrJoin([ i \in 1..Len(lines) |-> Compiled(lines[i]) ], "\n")

\* a value of the configuration that is a list (a JSON array) is written as
\* its items after a "[", a value that is a string as its characters
JsonList(items) == <<"[">> \o items

\* isinstance(value, list)
IsList(value) == value # <<>> /\ Head(value) = "["

\* patternList with the items `replacement` in the place of its first item
\* "default"; the list as it is when it has no such item (index() raises)
WithDefault(patternList, replacement) ==
  IF \E i \in 1..Len(patternList) : patternList[i] = KW_DEFAULT
    THEN LET defaultOffset == CHOOSE i \in 1..Len(patternList) :
                                /\ patternList[i] = KW_DEFAULT
                                /\ \A j \in 1..(i - 1) : patternList[j] # KW_DEFAULT
         IN SubSeq(patternList, 1, defaultOffset - 1) \o replacement
              \o SubSeq(patternList, defaultOffset + 1, Len(patternList))
    ELSE patternList

\* a list is joined into a text of one item a line, the default patterns and
\* the comment "\n# Custom patterns " standing for its item "default"; the
\* word "C" stands for the words of the comment, whose trailing blank strip()
\* takes away
gitAttributesLfsFromPatterns(patternsString) ==
  LET FromText(text) ==
        IF text = KW_NONE THEN <<>>
        ELSE IF text = KW_DEFAULT
          THEN CompilePatterns(GITATTRIBUTES_DEFAULT_LFS_PATTERNS)
        ELSE CompilePatterns(text)
  IN IF IsList(patternsString)
       THEN FromText(StrJoin(WithDefault(Tail(patternsString),
                                         << GITATTRIBUTES_DEFAULT_LFS_PATTERNS,
                                            <<"\n", "#", "C">> >>), "\n"))
       ELSE FromText(patternsString)

\* the lines of contents2 that gitAttributesMergeDumb takes as new: those
\* that do not occur anywhere in contents1
new_lines(contents1, contents2) ==
  LET lines == split(contents2, "\n")
      Fresh(line) == ~Contains(contents1, line)
  IN SelectSeq(lines, Fresh)

gitAttributesMergeDumb(contents1, contents2, separator) ==
  IF new_lines(contents1, contents2) = <<>> THEN contents1
  ELSE contents1 \o <<"\n">> \o separator \o <<"\n">>
         \o StrJoin(sorted(new_lines(contents1, contents2)), "\n") \o <<"\n">>

(***************************************************************************)
(* The classifier of the analyzer.                                         *)
(***************************************************************************)
RECURSIVE fnmatch(_, _)
\* fnmatch.fnmatch(name, pat) where os.path.normcase changes nothing, for
\* patterns made of literal characters, ? and *
fnmatch(name, pat) ==
  IF pat = <<>> THEN name = <<>>
  ELSE IF Head(pat) = "*"
    THEN \E k \in 0..Len(name) : fnmatch(SubSeq(name, k + 1, Len(name)), Tail(pat))
  ELSE IF name = <<>> THEN FALSE
  ELSE /\ ( Head(pat) = "?" \/ Head(pat) = Head(name) )
       /\ fnmatch(Tail(name), Tail(pat))

\* len([p for p in lfs_patterns if fnmatch.fnmatch(file_name, p)]) > 0
MatchesPattern(patterns, name) ==
  \E i \in 1..Len(patterns) : fnmatch(name, patterns[i])

lfs_size_threshold == 1024 * 1024

\* how many bytes looksBinary reads of the stream
ReadSize == 1024

\* a faulty variant of looksBinary: a path that matches a pattern is left out
\* of the heuristic and never looks binary
looksBinaryExcluding(patterns, name, size, stream) ==
  IF MatchesPattern(patterns, name) THEN FALSE
  ELSE IF size >= lfs_size_threshold THEN TRUE
  ELSE IF Cardinality({ offset \in stream : offset < ReadSize }) >= 1 THEN TRUE
  ELSE FALSE

\* looksBinary; the stream is given by the offsets of its NUL bytes
looksBinary(patterns, name, size, stream) ==
  IF MatchesPattern(patterns, name) THEN TRUE
  ELSE IF size >= lfs_size_threshold THEN TRUE
  ELSE IF Cardinality({ offset \in stream : offset < ReadSize }) >= 1 THEN TRUE
  ELSE FALSE

\* getPatternsFromPatternMultiline for a text of one pattern a line
getPatternsFromPatternMultiline(patternsString) ==
  LET IsPattern(line) == line # <<>> /\ Head(line) # "#"
      lines == SelectSeq(split(patternsString, "\n"), IsPattern)
  IN [ i \in 1..Len(lines) |-> PatternOf(lines[i]) ]

\* what `for p in lfs_patterns` yields when lfs_patterns is a string, as
\* data.get('lfs_patterns', KW_DEFAULT) is: its characters
Iterated(string) == [ i \in 1..Len(string) |-> <<string[i]>> ]

\* file_name.endswith(ext)
EndsWith(name, ext) ==
  Len(name) >= Len(ext) /\ SubSeq(name, Len(name) - Len(ext) + 1, Len(name)) = ext

SensitiveExtensions ==
  { <<".", "c", "e", "r">>, <<".", "k", "e", "y">>, <<".", "p", "1", "2">>,
    <<".", "c", "r", "t">>, <<".", "p", "e", "m">> }

\* a warning: its kind, the text it quotes, and the size and the count of
\* commits that a warning about an aggregated history gives
Warning(kind, text, size, commits) ==
  [ kind |-> kind, text |-> text, size |-> size, commits |-> commits ]

\* detectSensitiveFiles: the warnings about one path
detectSensitiveFiles(name) ==
  ( IF name = <<".", "g", "i", "t", "a", "t", "t", "r", "i", "b", "u", "t", "e", "s">>
      THEN { Warning("gitattributes", <<>>, 0, 0) } ELSE {} )
    \cup { Warning("sensitive", name, 0, 0) :
             ext \in { e \in SensitiveExtensions : EndsWith(name, e) } }
    \cup { Warning("percent", SubSeq(name, index, IF index + 2 <= Len(name)
                                                   THEN index + 2 ELSE Len(name)), 0, 0) :
             index \in { i \in 1..Len(name) :
                          name[i] = "%" /\ \A j \in 1..(i - 1) : name[j] # "%" } }

\* collections.Counter: counter[key], and counter[key] += amount
Count(counter, key) == IF key \in DOMAIN counter THEN counter[key] ELSE 0

Increased(counter, key, amount) ==
  [ k \in DOMAIN counter \cup {key} |->
      IF k = key THEN Count(counter, key) + amount ELSE counter[k] ]

\* the threshold of the warning about an aggregated history
AggregatedSizeLimit == 50 * 1024 * 1024

\* a faulty variant of SizeWarnings: a total equal to the threshold warns too
SizeWarningsInclusive(sizes, counts) ==
  { Warning("aggregated", name, sizes[name], Count(counts, name)) :
      name \in { k \in DOMAIN sizes : sizes[k] >= AggregatedSizeLimit } }

\* for name, size in lfs_aggregated_file_size.most_common(): if size > 50 MiB
SizeWarnings(sizes, counts) ==
  { Warning("aggregated", name, sizes[name], Count(counts, name)) :
      name \in { k \in DOMAIN sizes : sizes[k] > AggregatedSizeLimit } }

\* a faulty variant of CountedAsLfs: every revision is classified afresh
CountedAfresh(known, patterns, what) ==
  looksBinary(patterns, what.b_path, what.size, what.nuls)

\* what.b_path in lfs_files or looksBinary(...)
CountedAsLfs(known, patterns, what) ==
  \/ what.b_path \in known
  \/ looksBinary(patterns, what.b_path, what.size, what.nuls)

\* a faulty variant of MergedAuthors: the entries of the analysis win
MergedAuthorsRecomputed(computed, prior) ==
  [ k \in DOMAIN computed \cup DOMAIN prior |->
      IF k \in DOMAIN computed THEN computed[k] ELSE prior[k] ]

\* for key, value in org_config.get('authors', {}).items(): config['authors'][key] = value
MergedAuthors(computed, prior) ==
  [ k \in DOMAIN computed \cup DOMAIN prior |->
      IF k \in DOMAIN prior THEN prior[k] ELSE computed[k] ]

(***************************************************************************)
(* Paths and the file system.                                              *)
(***************************************************************************)
GITATTRIBUTES == <<".", "g", "i", "t", "a", "t", "t", "r", "i", "b", "u", "t", "e", "s">>
DOT_GIT == <<".", "g", "i", "t">>

\* os.path.join(a, b) for a relative b
join(a, b) == a \o <<"/">> \o b

\* os.path.dirname: everything before the last "/" ("" when there is none)
dirname(p) ==
  LET slashes == { i \in 1..Len(p) : p[i] = "/" }
  IN IF slashes = {} THEN <<>>
     ELSE SubSeq(p, 1, (CHOOSE i \in slashes : \A j \in slashes : j <= i) - 1)

\* os.path.basename
basename(p) ==
  LET slashes == { i \in 1..Len(p) : p[i] = "/" }
  IN IF slashes = {} THEN p
     ELSE SubSeq(p, (CHOOSE i \in slashes : \A j \in slashes : j <= i) + 1, Len(p))

\* the first component of a relative path
FirstComponent(p) ==
  LET slashes == { i \in 1..Len(p) : p[i] = "/" }
  IN IF slashes = {} THEN p
     ELSE SubSeq(p, 1, (CHOOSE i \in slashes : \A j \in slashes : i <= j) - 1)

\* the components of a relative path
Components(p) ==
  LET cuts == { i \in 0..(Len(p) + 1) : i = 0 \/ i = Len(p) + 1 \/ p[i] = "/" }
  IN { SubSeq(p, i + 1, j - 1) :
         <<i, j>> \in { c \in cuts \X cuts :
                          c[1] < c[2] /\ \A k \in cuts : ~(c[1] < k /\ k < c[2]) } }

\* p lies strictly below directory d
Under(d, p) == Len(p) > Len(d) + 1 /\ SubSeq(p, 1, Len(d) + 1) = d \o <<"/">>

\* os.path.relpath(p, d) for p below d
relpath(p, d) == SubSeq(p, Len(d) + 2, Len(p))

isfile(files, p) == p \in DOMAIN files

isdir(files, d) == \E p \in DOMAIN files : Under(d, p)

exists(files, p) == isfile(files, p) \/ isdir(files, p)

\* some proper ancestor of p is a regular file (os.makedirs and open then fail)
AncestorIsFile(files, p) ==
  \E i \in 2..Len(p) : p[i] = "/" /\ SubSeq(p, 1, i - 1) \in DOMAIN files

\* os.scandir(d): the names of the sub-directories and of the files of d
ListDirs(files, d) ==
  { FirstComponent(relpath(p, d)) :
      p \in { q \in DOMAIN files : Under(d, q) /\ dirname(relpath(q, d)) # <<>> } }

ListFiles(files, d) ==
  { relpath(p, d) :
      p \in { q \in DOMAIN files : Under(d, q) /\ dirname(relpath(q, d)) = <<>> } }

\* the file system without file p (os.unlink followed by os.removedirs)
Unlink(files, p) == [ q \in DOMAIN files \ {p} |-> files[q] ]

\* the file system with file p holding data
WriteFile(files, p, data) ==
  [ q \in DOMAIN files \cup {p} |-> IF q = p THEN data ELSE files[q] ]

\* os.renames(old, new) raises
RenamesRaises(files, old, new) ==
  \/ ~exists(files, old)
  \/ AncestorIsFile(files, new)
  \/ isfile(files, old) /\ old # new /\ isdir(files, new)
  \/ isdir(files, old) /\ old # new /\ (exists(files, new) \/ Under(old, new))

\* os.renames(old, new): os.makedirs of the new parent, os.rename, and
\* os.removedirs of the old parent
renames(files, old, new) ==
  IF isfile(files, old)
    THEN [ q \in (DOMAIN files \ {old}) \cup {new} |->
             IF q = new THEN files[old] ELSE files[q] ]
    ELSE LET Moved(q) ==
               IF Under(old, q) THEN new \o SubSeq(q, Len(old) + 1, Len(q)) ELSE q
         IN [ q \in { Moved(p) : p \in DOMAIN files } |->
                files[CHOOSE p \in DOMAIN files : Moved(p) = q] ]


(***************************************************************************)
(* Helpers of the program.                                                 *)
(***************************************************************************)
\* a faulty variant of multireplace: the result of what.replace() is dropped
multireplaceDropped(what, table_dict) == what

RECURSIVE multireplace(_, _)
\* table_dict is the dict in insertion order: a sequence of <<search, replacement>>
multireplace(what, table_dict) ==
  IF table_dict = <<>> THEN what
  ELSE multireplace(StrReplace(what, Head(table_dict)[1], Head(table_dict)[2]),
                    Tail(table_dict))

\* the bytes of the file after f.read().replace(), f.seek(0), f.write(data):
\* the file is not truncated, so what lay beyond the written data stays
fileInplaceSearchAndReplace(old, search_text, replace_text) ==
  LET data == StrReplace(old, search_text, replace_text)
  IN data \o SubSeq(old, Len(data) + 1, Len(old))

RECURSIVE ReplaceAll(_, _)
\* for search, replace in what_to_replace.items(): fileInplaceSearchAndReplace(...)
ReplaceAll(old, what_to_replace) ==
  IF what_to_replace = <<>> THEN old
  ELSE ReplaceAll(fileInplaceSearchAndReplace(old, Head(what_to_replace)[1],
                                              Head(what_to_replace)[2]),
                  Tail(what_to_replace))

\* f'{name} <{email}>'
IdentityKey(name, email) == name \o <<" ", "<">> \o email \o <<">">>

\* a faulty variant of MappedName: the authors table is not looked up
OriginalName(mapping, name, email) == name

\* authors_mapping.get(key, {'name': name}).get('name')
MappedName(mapping, name, email) ==
  IF IdentityKey(name, email) \in DOMAIN mapping
    THEN mapping[IdentityKey(name, email)].name
    ELSE name

\* authors_mapping.get(key, {'email': email}).get('email')
MappedEmail(mapping, name, email) ==
  IF IdentityKey(name, email) \in DOMAIN mapping
    THEN mapping[IdentityKey(name, email)].email
    ELSE email

\* f"{date} {tz_offset}", the value given to GIT_AUTHOR_DATE / GIT_COMMITTER_DATE
DateString(date, tz_offset) == IntToStr(date) \o <<" ">> \o IntToStr(tz_offset)

\* '-m', commit.message
CommitMessageArg(c) == c.message

(***************************************************************************)
(* The paths of a run (main).                                              *)
(***************************************************************************)
origin_repo_path == <<"/", "r">>
cloned_repo_path == origin_repo_path \o <<"-", "c", "l", "o", "n", "e">>
target_repo_path == origin_repo_path \o <<"-", "l", "f", "s">>
\* the working directory of the process: a relative path names a file below it
cwd == <<"/", "w">>
abspath(p) == IF Len(p) > 0 /\ p[1] = "/" THEN p ELSE join(cwd, p)

(***************************************************************************)
(* The version-control collaborator (git, read through GitPython).         *)
(***************************************************************************)
\* git's reading of a tz offset given as "+hhmm" / "-hhmm": minutes east of UTC
HhmmToMinutes(s) ==
  LET v == StrToNat(SubSeq(s, 2, 5))
      m == (v \div 100) * 60 + (v % 100)
  IN IF s[1] = "-" THEN -m ELSE m

\* git's reading of a date given as "<seconds> <tz>" (date.c): the seconds are
\* kept; a sign and exactly four digits are an offset hhmm, which the builds
\* of git that check the hour part take only when it is below 24; anything
\* else is no offset, and git takes the local zone of the machine.
\* machine is the machine of the run: its zone (seconds west of UTC), and
\* whether its git checks the hour part.
\* The result is what GitPython reads back: seconds, and seconds west of UTC.
GitParseDate(s, machine) ==
  LET sp == CHOOSE i \in 1..Len(s) : s[i] = " "
      stamp == StrToNat(SubSeq(s, 1, sp - 1))
      tz == SubSeq(s, sp + 1, Len(s))
      header == /\ Len(tz) = 5
                /\ tz[1] \in {"+", "-"}
                /\ \A i \in 2..5 : IsDigit(tz[i])
      taken == /\ header
               /\ machine.tz_hour_limit => StrToNat(SubSeq(tz, 2, 3)) < 24
  IN [ date |-> stamp,
       tz_offset |-> IF taken THEN -(HhmmToMinutes(tz) * 60)
                     ELSE machine.local_tz ]

RECURSIVE SplitLines(_)
\* the lines of a text, without their line ends
SplitLines(s) ==
  IF s = <<>> THEN <<>>
  ELSE IF \E i \in 1..Len(s) : s[i] = "\n"
    THEN LET i == CHOOSE k \in 1..Len(s) :
                    s[k] = "\n" /\ \A j \in 1..(k - 1) : s[j] # "\n"
         IN <<SubSeq(s, 1, i - 1)>> \o SplitLines(SubSeq(s, i + 1, Len(s)))
    ELSE <<s>>

RECURSIVE RStrip(_)
\* a line without the white space at its end
RStrip(line) ==
  IF line # <<>> /\ line[Len(line)] \in {" ", "\t"}
    THEN RStrip(SubSeq(line, 1, Len(line) - 1))
    ELSE line

RECURSIVE StripLines(_, _, _)
StripLines(lines, out, empties) ==
  IF lines = <<>> THEN out
  ELSE LET line == RStrip(Head(lines))
       IN IF line = <<>> THEN StripLines(Tail(lines), out, empties + 1)
          ELSE StripLines(Tail(lines),
                          out \o (IF empties > 0 /\ out # <<>> THEN <<"\n">> ELSE <<>>)
                              \o line \o <<"\n">>,
                          0)

\* what git does to a message given with -m (its default --cleanup mode when
\* no editor runs, "whitespace"): the white space at the end of every line
\* goes, the empty lines at the start and at the end go, runs of empty lines
\* become one, and every line left ends with a line end
GitStripspace(message) == StripLines(SplitLines(message), <<>>, 0)

\* the tree `git add .` stages in the target repository: every file below the
\* target root outside its .git directory, by relative path
TargetTree(files) ==
  LET inside == { p \in DOMAIN files :
                    /\ Under(target_repo_path, p)
                    /\ FirstComponent(relpath(p, target_repo_path)) # DOT_GIT }
  IN [ r \in { relpath(p, target_repo_path) : p \in inside } |->
         files[join(target_repo_path, r)] ]

\* the working tree of the clone after a checkout, by relative path
ClonedTree(files) ==
  [ r \in { relpath(p, cloned_repo_path) :
              p \in { q \in DOMAIN files : Under(cloned_repo_path, q) } } |->
      files[join(cloned_repo_path, r)] ]

\* git commands run in the target repository need its .git directory
TargetRepoUsable(files) == isdir(files, join(target_repo_path, DOT_GIT))

\* git commit under custom_environment(env): the commit object it creates
GitCommit(env, message, tree, machine) ==
  [ tree |-> tree,
    message |-> GitStripspace(message),
    author_name |-> env.GIT_AUTHOR_NAME,
    author_email |-> env.GIT_AUTHOR_EMAIL,
    authored_date |-> GitParseDate(env.GIT_AUTHOR_DATE, machine).date,
    author_tz_offset |-> GitParseDate(env.GIT_AUTHOR_DATE, machine).tz_offset,
    committer_name |-> env.GIT_COMMITTER_NAME,
    committer_email |-> env.GIT_COMMITTER_EMAIL,
    committed_date |-> GitParseDate(env.GIT_COMMITTER_DATE, machine).date,
    committer_tz_offset |-> GitParseDate(env.GIT_COMMITTER_DATE, machine).tz_offset ]

(***************************************************************************)
(* The state of a migrate run.                                             *)
(***************************************************************************)
VARIABLES
  files_to_rename,          \* history_rename_files, in insertion order
  files_to_delete,          \* set(history_delete_files)
  files_to_replace,         \* history_replace_file_contents
  authors_mapping,          \* authors
  git_attributes_contents,  \* the compiled attribute text
  machine,                  \* the zone and the git of the machine of the run
  num_commits,              \* len(commits)
  num_tags,                 \* len(cloned_repo.tags)
  pc,                       \* where replayCommits stands
  n,                        \* the index of the commit being replayed
  commit,                   \* commits[n]
  previous_commit,          \* None, or the hexsha of commits[n - 1]
  diff,                     \* the entries of previous_commit.diff(commit) left
  fs,                       \* the file system
  walk_pass,                \* the os.walk loop of the root rename pass
  walk_stack,               \* the directories os.walk has still to visit
  target_count,             \* the number of commits of the target repository
  target_head,              \* target_repo.head.commit
  commit_mapping,           \* original hexsha -> replayed hexsha
  tagref,                   \* the tag of the clone being replayed
  tags_done,                \* the names of the tags of the clone already seen
  target_tags,              \* the tags of the target repository, by name
  branch_name,              \* args.branch
  origin_branches,          \* origin_repo.branches, by name
  origin_head,              \* the branch HEAD of the origin repository names
  cloned_branches,          \* the local branches of the clone, by name
  config_file,              \* the file args.config names
  files_to_rename_bound,    \* whether main has assigned files_to_rename
  contents1,                \* gitAttributesMergeDumb: the base text
  contents2,                \* gitAttributesMergeDumb: the block to merge in
  separator,                \* gitAttributesMergeDumb: the separator
  merged,                   \* what gitAttributesMergeDumb returned
  lfs_patterns,             \* the pattern list of the analyzer
  file_name,                \* looksBinary: the path
  file_size,                \* looksBinary: the size of the blob
  read_stream,              \* looksBinary: the offsets of the NUL bytes of the blob
  looks_binary,             \* what looksBinary returned
  lfs_files,                \* analyzer: the paths classified so far
  lfs_file_commit_count,    \* analyzer: per path, the revisions counted
  lfs_aggregated_file_size, \* analyzer: per path, the sizes counted
  warnings,                 \* analyzer: the warnings
  observed                  \* the revisions and the identities the pass has met

vars == << files_to_rename, files_to_delete, files_to_replace, authors_mapping,
           git_attributes_contents, machine, num_commits, num_tags, pc, n,
           commit, previous_commit, diff, fs, walk_pass, walk_stack,
           target_count, target_head, commit_mapping, tagref, tags_done,
           target_tags,
           branch_name, origin_branches, origin_head, cloned_branches,
           config_file, files_to_rename_bound, contents1, contents2, separator,
           merged, lfs_patterns, file_name, file_size, read_stream, looks_binary,
           lfs_files, lfs_file_commit_count, lfs_aggregated_file_size, warnings,
           observed >>

\* what main reads of the command line, of the origin repository and of the
\* configuration file, and the branches the clone gets
main_vars == << branch_name, origin_branches, origin_head, cloned_branches,
                config_file, files_to_rename_bound >>

\* the arguments and the result of a call of gitAttributesMergeDumb
merge_vars == << contents1, contents2, separator, merged >>

\* the arguments and the result of a call of looksBinary
classify_vars == << lfs_patterns, file_name, file_size, read_stream, looks_binary >>

\* the tables of analyzeGitRepository, and the history it has met
analysis_vars == << lfs_files, lfs_file_commit_count, lfs_aggregated_file_size,
                    warnings, observed >>

config_vars == << files_to_rename, files_to_delete, files_to_replace,
                  authors_mapping, git_attributes_contents, machine,
                  num_commits, num_tags, main_vars, merge_vars, classify_vars, analysis_vars >>

\* the state of replayCommits, but for the position of the run
replay_vars == << n, commit, previous_commit, diff, fs, walk_pass, walk_stack,
                 target_count, target_head, commit_mapping, tagref, tags_done,
                 target_tags >>

\* commit.hexsha of the i-th source commit, and of the j-th target commit
SrcSha(i) == <<"c", i>>
DstSha(j) == <<"t", j>>
NoSha == <<>>

EmptyMap == [ x \in {} |-> <<>> ]

NoCommit ==
  [ hexsha |-> NoSha, author |-> [name |-> <<>>, email |-> <<>>],
    committer |-> [name |-> <<>>, email |-> <<>>],
    authored_date |-> 0, author_tz_offset |-> 0,
    committed_date |-> 0, committer_tz_offset |-> 0, message |-> <<>> ]

NoTargetCommit ==
  [ tree |-> EmptyMap, message |-> <<>>,
    author_name |-> <<>>, author_email |-> <<>>,
    authored_date |-> 0, author_tz_offset |-> 0,
    committer_name |-> <<>>, committer_email |-> <<>>,
    committed_date |-> 0, committer_tz_offset |-> 0 ]

NoTagger == [name |-> <<>>, email |-> <<>>]

\* a tag reference with no tag object behind it (tagref.tag is None)
NoTagObject ==
  [ tag |-> <<>>, tagger |-> NoTagger, message |-> <<>>,
    tagged_date |-> 0, tagger_tz_offset |-> 0 ]

NoTagRef ==
  [ name |-> <<>>, commit |-> NoSha, is_commit |-> FALSE,
    annotated |-> FALSE, tag |-> NoTagObject ]

\* the target repository after git.Repo.init
InitialFs == [ p \in { join(join(target_repo_path, DOT_GIT), <<"H", "E", "A", "D">>) } |->
                 <<"r", "e", "f">> ]

\* the files of the working directory of the process, given by relative path
WithStrays(files, strays) ==
  [ q \in DOMAIN files \cup { abspath(r) : r \in DOMAIN strays } |->
      IF q \in DOMAIN files THEN files[q]
      ELSE strays[CHOOSE r \in DOMAIN strays : abspath(r) = q] ]

\* the attribute text of the default patterns
DefaultAttributes == gitAttributesLfsFromPatterns(GITATTRIBUTES_DEFAULT_LFS_PATTERNS)

\* the keys of the configuration file that main reads
AllConfigKeys ==
  { "authors", "history_rename_files", "history_delete_files",
    "history_replace_file_contents", "lfs_patterns", "extra_lfs_patterns" }

\* a configuration file: whether it exists, the keys it has, and their values
\* (the value of a key the file does not have is not looked at)
ConfigFile(file_exists, keys, authors, rename, delete, replace, patterns, extra) ==
  [ exists |-> file_exists, keys |-> keys, authors |-> authors,
    history_rename_files |-> rename, history_delete_files |-> delete,
    history_replace_file_contents |-> replace, lfs_patterns |-> patterns,
    extra_lfs_patterns |-> extra ]

\* data.get(key, default)
ConfigGet(data, key, default) == IF key \in data.keys THEN data[key] ELSE default

\* the attribute text main compiles from a configuration file
ConfiguredAttributes(data) ==
  LET compiled == gitAttributesLfsFromPatterns(ConfigGet(data, "lfs_patterns", KW_DEFAULT))
      extra_lfs_patterns == ConfigGet(data, "extra_lfs_patterns", <<>>)
  IN IF extra_lfs_patterns # <<>>
       THEN gitAttributesMergeDumb(
              compiled,
              gitAttributesLfsFromPatterns(StrJoin(extra_lfs_patterns, "\n")),
              <<"\n", "#", " ", "P">>)
       ELSE compiled

\* gitAttributesMergeDumb has not been called on its own
NothingMerged ==
  /\ contents1 = <<>>
  /\ contents2 = <<>>
  /\ separator = <<>>
  /\ merged = <<>>

\* looksBinary has not been called
NothingClassified ==
  /\ lfs_patterns = <<>>
  /\ file_name = <<>>
  /\ file_size = 0
  /\ read_stream = {}
  /\ looks_binary = FALSE

\* the tables of the analyzer are empty
NothingAnalyzed ==
  /\ lfs_files = {}
  /\ lfs_file_commit_count = EmptyMap
  /\ lfs_aggregated_file_size = EmptyMap
  /\ warnings = {}
  /\ observed = [ revisions |-> <<>>, identities |-> {} ]

\* no commit and no tag has been replayed
NothingReplayed ==
  /\ n = 0
  /\ commit = NoCommit
  /\ previous_commit = NoSha
  /\ diff = <<>>
  /\ walk_pass = "none"
  /\ walk_stack = <<>>
  /\ target_count = 0
  /\ target_head = NoTargetCommit
  /\ commit_mapping = EmptyMap
  /\ tagref = NoTagRef
  /\ tags_done = {}
  /\ target_tags = EmptyMap

\* the state in which main calls replayCommits, main having read a
\* configuration file that has every key
InitWith(RenameTables, DeleteSets, ReplaceRules, AuthorMaps, Machines, Lengths, TagCounts, Strays) ==
  /\ files_to_rename \in RenameTables
  /\ files_to_delete \in DeleteSets
  /\ files_to_replace \in ReplaceRules
  /\ authors_mapping \in AuthorMaps
  /\ git_attributes_contents = DefaultAttributes
  /\ branch_name = "master"
  /\ origin_branches = {"master"}
  /\ origin_head = "master"
  /\ cloned_branches = {"master"}
  /\ config_file = ConfigFile(TRUE, AllConfigKeys, authors_mapping, files_to_rename,
                              files_to_delete, files_to_replace, KW_DEFAULT, <<>>)
  /\ files_to_rename_bound = TRUE
  /\ machine \in Machines
  /\ num_commits \in Lengths
  /\ num_tags \in TagCounts
  /\ pc = "start"
  /\ fs \in { WithStrays(InitialFs, strays) : strays \in Strays }
  /\ NothingReplayed
  /\ NothingMerged
  /\ NothingClassified
  /\ NothingAnalyzed

(***************************************************************************)
(* The source history: commits with their metadata, and the diff between   *)
(* adjacent commits (GitPython runs git diff with rename detection).       *)
(***************************************************************************)
\* the trees over a set of paths and a set of contents
Trees(Paths, Contents) ==
  UNION { [P -> Contents] : P \in SUBSET Paths }

Change(type, a, b, content) ==
  [ change_type |-> type, a_path |-> a, b_path |-> b, content |-> content ]

\* the entries a diff against `tree` can hold; content is the blob of the new
\* commit at b_path (the engine reads it from the checked-out working tree)
Changes(tree, Paths, Contents) ==
  LET present == DOMAIN tree
      absent == Paths \ DOMAIN tree
  IN    { Change("A", p, p, c) : p \in absent, c \in Contents }
   \cup { Change("M", x[1], x[1], x[2]) :
             x \in { y \in present \X Contents : y[2] # tree[y[1]] } }
   \cup { Change("T", p, p, c) : p \in present, c \in Contents }
   \cup { Change("D", p, p, <<>>) : p \in present }
   \cup { Change("R", a, b, c) : a \in present, b \in absent, c \in Contents }
   \cup { Change("C", a, b, tree[a]) : a \in present, b \in absent }

\* the diffs against `tree`: at most MaxChanges entries, no path in two entries
Diffs(tree, Paths, Contents) ==
  UNION { { d \in [1..k -> Changes(tree, Paths, Contents)] :
              \A i, j \in 1..k :
                i # j => {d[i].a_path, d[i].b_path} \cap {d[j].a_path, d[j].b_path} = {} }
          : k \in 0..MaxChanges }

RECURSIVE ApplyDiff(_, _)
\* the tree of the new commit
ApplyDiff(tree, d) ==
  IF d = <<>> THEN tree
  ELSE LET what == Head(d)
           kept == IF what.change_type \in {"D", "R"}
                     THEN DOMAIN tree \ {what.a_path} ELSE DOMAIN tree
           next == IF what.change_type = "D"
                     THEN [ r \in kept |-> tree[r] ]
                     ELSE [ r \in kept \cup {what.b_path} |->
                              IF r = what.b_path THEN what.content ELSE tree[r] ]
       IN ApplyDiff(next, Tail(d))

\* cloned_git.checkout(commit.hexsha): the working tree of the clone holds `tree`
GitCheckout(files, tree) ==
  LET others == { q \in DOMAIN files : ~Under(cloned_repo_path, q) }
  IN [ q \in others \cup { join(cloned_repo_path, r) : r \in DOMAIN tree } |->
         IF Under(cloned_repo_path, q) THEN tree[relpath(q, cloned_repo_path)]
         ELSE files[q] ]

(***************************************************************************)
(* replayCommits.                                                          *)
(***************************************************************************)
\* what a handler leaves: the file system, and whether it raised
Result(files, raised) == [ files |-> files, raised |-> raised ]

\* f.write('\n'); f.write(git_attributes_contents) on a file opened 'a+t'
AttributeText(old, contents) == old \o <<"\n">> \o contents

\* a faulty variant of commits_exhausted: the loop is left after its first
\* iteration
commits_started(k, total) == k >= 1

\* the for loop over commits has no commit left
commits_exhausted(k, total) == k >= total

\* shutil.ignore_patterns(".git", ".git/**", ".gitattributes"): a name matching
\* one of them is skipped in every directory of the copy
CopyTreeIgnored(r) == \E c \in Components(r) : c \in {DOT_GIT, GITATTRIBUTES}

\* shutil.copytree(cloned_repo_path, target_repo_path, ignore, dirs_exist_ok)
copytree(files) ==
  LET tree == ClonedTree(files)
      copied == { join(target_repo_path, r) : r \in { x \in DOMAIN tree : ~CopyTreeIgnored(x) } }
  IN [ q \in DOMAIN files \cup copied |->
         IF q \in copied THEN tree[relpath(q, target_repo_path)] ELSE files[q] ]

\* for file in files_to_delete: if os.path.isfile(file): os.unlink(file)
RootDeletePass(files, to_delete) ==
  [ q \in DOMAIN files \ { abspath(f) : f \in to_delete } |-> files[q] ]

\* for file in files_to_replace.keys(): if os.path.isfile(file): ...
RootReplacePass(files, to_replace) ==
  [ q \in DOMAIN files |->
      IF \E f \in DOMAIN to_replace : abspath(f) = q
        THEN ReplaceAll(files[q], to_replace[CHOOSE f \in DOMAIN to_replace : abspath(f) = q])
        ELSE files[q] ]

RECURSIVE RenameEach(_, _, _, _)
\* the body of one os.walk iteration of the root rename pass, over `names`
RenameEach(files, top, names, table) ==
  IF names = <<>> THEN Result(files, FALSE)
  ELSE LET org_path == join(top, Head(names))
           new_path == multireplace(org_path, table)
       IN IF org_path = new_path THEN RenameEach(files, top, Tail(names), table)
          ELSE IF RenamesRaises(files, org_path, new_path) THEN Result(files, TRUE)
          ELSE RenameEach(renames(files, org_path, new_path), top, Tail(names), table)

\* case 'A' | 'M' | 'T'
ReplayAMT(files, what, table, to_delete, to_replace) ==
  LET target_rel == multireplace(what.a_path, table)
      source_file == join(cloned_repo_path, what.a_path)
      target_file == join(target_repo_path, target_rel)
      \* shutil.copy2 into an existing directory copies under the source's name
      dst == IF isdir(files, target_file)
               THEN join(target_file, basename(source_file)) ELSE target_file
      copied == WriteFile(files, dst, files[source_file])
      unlinked == IF what.a_path \in to_delete /\ isfile(copied, target_file)
                    THEN Unlink(copied, target_file) ELSE copied
      replaced == IF what.a_path \in DOMAIN to_replace /\ isfile(unlinked, target_file)
                    THEN WriteFile(unlinked, target_file,
                                   ReplaceAll(unlinked[target_file], to_replace[what.a_path]))
                    ELSE unlinked
  IN IF AncestorIsFile(files, target_file) \/ ~isfile(files, source_file)
       THEN Result(files, TRUE)
     ELSE IF what.a_path \in to_delete /\ isdir(copied, target_file)
       THEN Result(copied, TRUE)
     ELSE Result(replaced, FALSE)

\* case 'D'
ReplayD(files, what, table, to_delete) ==
  LET file_path == join(target_repo_path, multireplace(what.a_path, table))
  IN IF what.a_path \in to_delete THEN Result(files, FALSE)
     ELSE IF isfile(files, file_path) THEN Result(Unlink(files, file_path), FALSE)
     ELSE Result(files, TRUE)

\* case 'R'
ReplayR(files, what, table, to_delete) ==
  LET source_file == join(target_repo_path, multireplace(what.a_path, table))
      target_file == join(target_repo_path, multireplace(what.b_path, table))
  IN IF what.a_path \in to_delete THEN Result(files, FALSE)
     ELSE IF RenamesRaises(files, source_file, target_file) THEN Result(files, TRUE)
     \* `what.b_path in files_to_delete and os.path.exsits(target_file)`:
     \* the os.path module has no attribute exsits
     ELSE Result(renames(files, source_file, target_file), what.b_path \in to_delete)

\* custom_environment(...) of the commit creation
CommitEnvironment(c, mapping) ==
  [ GIT_AUTHOR_NAME |-> MappedName(mapping, c.author.name, c.author.email),
    GIT_AUTHOR_EMAIL |-> MappedEmail(mapping, c.author.name, c.author.email),
    GIT_AUTHOR_DATE |-> DateString(c.authored_date, c.author_tz_offset),
    GIT_COMMITTER_NAME |-> MappedName(mapping, c.committer.name, c.committer.email),
    GIT_COMMITTER_EMAIL |-> MappedEmail(mapping, c.committer.name, c.committer.email),
    GIT_COMMITTER_DATE |-> DateString(c.committed_date, c.committer_tz_offset) ]

(***************************************************************************)
(* replayCommitTags.                                                       *)
(***************************************************************************)
\* user.name / user.email of the machine the migration runs on: git takes the
\* tagger of an annotated tag from GIT_COMMITTER_NAME / GIT_COMMITTER_EMAIL,
\* and from the configuration of the machine when they are not set
MachineIdentity == [ name |-> <<"U">>, email |-> <<"u">> ]

\* git tag <name> <hexsha>
GitTagLightweight(tags, name, hexsha) ==
  [ t \in DOMAIN tags \cup {name} |->
      IF t = name
        THEN [ annotated |-> FALSE, object |-> hexsha, tagger |-> NoTagger,
               message |-> <<>>, tagged_date |-> 0, tagger_tz_offset |-> 0 ]
        ELSE tags[t] ]

\* git tag -a <name> -m <message> <hexsha> under custom_environment(env)
GitTagAnnotated(tags, env, name, message, hexsha, host) ==
  [ t \in DOMAIN tags \cup {name} |->
      IF t = name
        THEN [ annotated |-> TRUE, object |-> hexsha,
               tagger |-> IF "GIT_COMMITTER_NAME" \in DOMAIN env
                            THEN [ name |-> env.GIT_COMMITTER_NAME,
                                   email |-> env.GIT_COMMITTER_EMAIL ]
                            ELSE MachineIdentity,
               message |-> GitStripspace(message),
               tagged_date |-> GitParseDate(env.GIT_COMMITTER_DATE, host).date,
               tagger_tz_offset |-> GitParseDate(env.GIT_COMMITTER_DATE, host).tz_offset ]
        ELSE tags[t] ]

\* try: commit_mapping.get(tagref.commit.hexsha, None) / except: None
\* (tagref.commit raises when the tag points at a tree or a blob)
TargetHexsha(ref, mapping) ==
  IF ref.is_commit /\ ref.commit \in DOMAIN mapping THEN mapping[ref.commit] ELSE NoSha

\* custom_environment(...) of the creation of an annotated tag
TagEnvironment(tag, mapping) ==
  [ GIT_AUTHOR_NAME |-> MappedName(mapping, tag.tagger.name, tag.tagger.email),
    GIT_AUTHOR_EMAIL |-> MappedEmail(mapping, tag.tagger.name, tag.tagger.email),
    GIT_AUTHOR_DATE |-> DateString(tag.tagged_date, tag.tagger_tz_offset),
    GIT_COMMITTER_DATE |-> DateString(tag.tagged_date, tag.tagger_tz_offset) ]

\* the body of the loop over cloned_repo.tags: the tags of the target after
\* it, and whether git raised (a tag of that name exists already)
ReplayOneTag(tags, ref, mapping, authors, host) ==
  LET target_hexsha == TargetHexsha(ref, mapping)
      tag == ref.tag
  IN IF target_hexsha = NoSha THEN [ tags |-> tags, raised |-> FALSE ]
     ELSE IF ~ref.annotated
       THEN IF ref.name \in DOMAIN tags THEN [ tags |-> tags, raised |-> TRUE ]
            ELSE [ tags |-> GitTagLightweight(tags, ref.name, target_hexsha),
                   raised |-> FALSE ]
     ELSE IF tag.tag \in DOMAIN tags THEN [ tags |-> tags, raised |-> TRUE ]
     ELSE IF tag.message # <<>>
       THEN [ tags |-> GitTagAnnotated(tags, TagEnvironment(tag, authors), tag.tag,
                                       tag.message, target_hexsha, host),
              raised |-> FALSE ]
     ELSE [ tags |-> GitTagLightweight(tags, tag.tag, target_hexsha), raised |-> FALSE ]

(***************************************************************************)
(* main, for the migrate command, up to the call of replayCommits.         *)
(***************************************************************************)
\* main, migrate: the defaults, then the configuration file if there is one.
\* files_to_rename is assigned only when the file is read.
MainLoadConfig ==
  /\ pc = "main"
  /\ IF config_file.exists
       THEN /\ authors_mapping' = ConfigGet(config_file, "authors", EmptyMap)
            /\ files_to_rename' = ConfigGet(config_file, "history_rename_files", EmptyMap)
            /\ files_to_rename_bound' = TRUE
            /\ files_to_delete' = ConfigGet(config_file, "history_delete_files", {})
            /\ files_to_replace' =
                 ConfigGet(config_file, "history_replace_file_contents", EmptyMap)
            /\ git_attributes_contents' = ConfiguredAttributes(config_file)
       ELSE /\ authors_mapping' = EmptyMap
            /\ files_to_delete' = {}
            /\ files_to_replace' = EmptyMap
            /\ git_attributes_contents' =
                 gitAttributesLfsFromPatterns(GITATTRIBUTES_DEFAULT_LFS_PATTERNS)
            /\ UNCHANGED << files_to_rename, files_to_rename_bound >>
  /\ pc' = "requirements"
  /\ UNCHANGED << machine, num_commits, num_tags, branch_name, origin_branches,
                  origin_head, cloned_branches, config_file, merge_vars,
                  classify_vars, analysis_vars, replay_vars >>

\* checkRequirements, and sys.exit(-1) when it returns False
CheckRequirements ==
  /\ pc = "requirements"
  /\ pc' = IF branch_name \notin origin_branches THEN "exited" ELSE "init"
  /\ UNCHANGED << config_vars, replay_vars >>

\* initRepositories: both directories are removed, the origin is cloned (the
\* clone gets one local branch, that of the HEAD of the origin) and the
\* target is initialised
InitRepositories ==
  /\ pc = "init"
  /\ fs' = [ p \in { q \in DOMAIN fs : ~Under(cloned_repo_path, q)
                                      /\ ~Under(target_repo_path, q) }
                    \cup DOMAIN InitialFs |->
               IF p \in DOMAIN InitialFs THEN InitialFs[p] ELSE fs[p] ]
  /\ cloned_branches' = {origin_head}
  /\ pc' = "call"
  /\ UNCHANGED << files_to_rename, files_to_delete, files_to_replace,
                  authors_mapping, git_attributes_contents, machine, num_commits,
                  num_tags, branch_name, origin_branches, origin_head, config_file,
                  files_to_rename_bound, merge_vars, classify_vars, analysis_vars, n,
                  commit, previous_commit,
                  diff, walk_pass, walk_stack, target_count, target_head,
                  commit_mapping, tagref, tags_done, target_tags >>

\* the call of replayCommits: its arguments are evaluated first, and the name
\* files_to_rename raises when nothing was assigned to it
CallReplayCommits ==
  /\ pc = "call"
  /\ pc' = IF files_to_rename_bound THEN "start" ELSE "failed"
  /\ UNCHANGED << config_vars, replay_vars >>

(***************************************************************************)
(* The steps of a run.                                                     *)
(***************************************************************************)
\* with open(os.path.join(target_repo_path, '.gitattributes'), 'a+t') as f: ...
WriteGitattributes ==
  /\ pc = "start"
  /\ LET path == join(target_repo_path, GITATTRIBUTES)
         old == IF isfile(fs, path) THEN fs[path] ELSE <<>>
     IN fs' = WriteFile(fs, path, AttributeText(old, git_attributes_contents))
  \* cloned_repo.iter_commits(branch_name): git rev-list fails on a name that
  \* is no local branch of the clone
  /\ pc' = IF branch_name \in cloned_branches THEN "loop" ELSE "failed"
  /\ UNCHANGED << config_vars, n, commit, previous_commit, diff, walk_pass,
                  walk_stack, target_count, target_head, commit_mapping, tagref,
                  tags_done, target_tags >>

\* the head of the loop body: the next commit is checked out in the clone
Checkout(Metas, Paths, Contents) ==
  /\ pc = "loop"
  /\ ~commits_exhausted(n, num_commits)
  /\ \E m \in Metas :
       commit' = [ hexsha |-> SrcSha(n), author |-> m.author, committer |-> m.committer,
                   authored_date |-> m.authored_date,
                   author_tz_offset |-> m.author_tz_offset,
                   committed_date |-> m.committed_date,
                   committer_tz_offset |-> m.committer_tz_offset,
                   message |-> m.message ]
  /\ IF previous_commit = NoSha
       THEN \E tree \in Trees(Paths, Contents) :
              /\ fs' = GitCheckout(fs, tree)
              /\ diff' = <<>>
              /\ pc' = "root"
       ELSE \E d \in Diffs(ClonedTree(fs), Paths, Contents) :
              /\ fs' = GitCheckout(fs, ApplyDiff(ClonedTree(fs), d))
              /\ diff' = d
              /\ pc' = IF d = <<>> THEN "commit" ELSE "diff"
  /\ UNCHANGED << config_vars, n, previous_commit, walk_pass, walk_stack,
                  target_count, target_head, commit_mapping, tagref, tags_done,
                  target_tags >>

\* the root commit: the full-tree copy, the delete pass and the replace pass
RootCopy ==
  /\ pc = "root"
  /\ fs' = RootReplacePass(RootDeletePass(copytree(fs), files_to_delete), files_to_replace)
  /\ IF files_to_rename # <<>>
       THEN /\ pc' = "walk"
            /\ walk_pass' = "dirs"
            /\ walk_stack' = <<target_repo_path>>
       ELSE /\ pc' = "commit"
            /\ UNCHANGED << walk_pass, walk_stack >>
  /\ UNCHANGED << config_vars, n, commit, previous_commit, diff, target_count,
                  target_head, commit_mapping, tagref, tags_done, target_tags >>

\* one iteration of `for root, dirs, files in os.walk(target_repo_path)` of the
\* root rename pass: the directory on top of the stack is listed (in the order
\* the file system gives), the loop body renames its directories (first walk)
\* or its files (second walk), and the listed directories are put on the stack
WalkStep ==
  /\ pc = "walk"
  /\ walk_stack # <<>>
  /\ LET top == Head(walk_stack)
     IN \E dirs \in Perms(ListDirs(fs, top)) :
        \E files \in (IF walk_pass = "files" THEN Perms(ListFiles(fs, top)) ELSE {<<>>}) :
          LET body == RenameEach(fs, top, IF walk_pass = "dirs" THEN dirs ELSE files,
                                 files_to_rename)
              stack == [ i \in 1..Len(dirs) |-> join(top, dirs[i]) ] \o Tail(walk_stack)
          IN /\ fs' = body.files
             /\ IF body.raised
                  THEN pc' = "failed" /\ UNCHANGED << walk_pass, walk_stack >>
                ELSE IF stack # <<>>
                  THEN pc' = pc /\ walk_stack' = stack /\ UNCHANGED walk_pass
                ELSE IF walk_pass = "dirs"
                  THEN pc' = pc /\ walk_pass' = "files" /\ walk_stack' = <<target_repo_path>>
                ELSE pc' = "commit" /\ walk_pass' = "none" /\ walk_stack' = <<>>
  /\ UNCHANGED << config_vars, n, commit, previous_commit, diff, target_count,
                  target_head, commit_mapping, tagref, tags_done, target_tags >>

\* what every handler of a diff entry ends with
DiffStep(result) ==
  /\ fs' = result.files
  /\ IF result.raised
       THEN pc' = "failed" /\ UNCHANGED diff
       ELSE /\ diff' = Tail(diff)
            /\ pc' = IF Tail(diff) = <<>> THEN "commit" ELSE "diff"
  /\ UNCHANGED << config_vars, n, commit, previous_commit, walk_pass, walk_stack,
                  target_count, target_head, commit_mapping, tagref, tags_done,
                  target_tags >>

\* if what.a_path == '.gitattributes': ... continue
SkipGitattributes ==
  /\ pc = "diff"
  /\ Head(diff).a_path = GITATTRIBUTES
  /\ DiffStep(Result(fs, FALSE))

ChangeAMT ==
  /\ pc = "diff"
  /\ Head(diff).a_path # GITATTRIBUTES
  /\ Head(diff).change_type \in {"A", "M", "T"}
  /\ DiffStep(ReplayAMT(fs, Head(diff), files_to_rename, files_to_delete, files_to_replace))

ChangeD ==
  /\ pc = "diff"
  /\ Head(diff).a_path # GITATTRIBUTES
  /\ Head(diff).change_type = "D"
  /\ DiffStep(ReplayD(fs, Head(diff), files_to_rename, files_to_delete))

ChangeR ==
  /\ pc = "diff"
  /\ Head(diff).a_path # GITATTRIBUTES
  /\ Head(diff).change_type = "R"
  /\ DiffStep(ReplayR(fs, Head(diff), files_to_rename, files_to_delete))

\* a faulty variant of ChangeOther: `case _: pass`, the entry is passed over
ChangeOtherIgnored ==
  /\ pc = "diff"
  /\ Head(diff).a_path # GITATTRIBUTES
  /\ Head(diff).change_type \notin {"A", "M", "T", "D", "R"}
  /\ DiffStep(Result(fs, FALSE))

\* case _: raise Exception
ChangeOther ==
  /\ pc = "diff"
  /\ Head(diff).a_path # GITATTRIBUTES
  /\ Head(diff).change_type \notin {"A", "M", "T", "D", "R"}
  /\ DiffStep(Result(fs, TRUE))

\* target_git.add('.'), target_git.commit(...), commit_mapping[...] = ...
CreateCommit ==
  /\ pc = "commit"
  /\ IF TargetRepoUsable(fs)
       THEN /\ target_head' = GitCommit(CommitEnvironment(commit, authors_mapping),
                                        CommitMessageArg(commit), TargetTree(fs), machine)
            /\ target_count' = target_count + 1
            /\ commit_mapping' =
                 [ h \in DOMAIN commit_mapping \cup {commit.hexsha} |->
                     IF h = commit.hexsha THEN DstSha(target_count + 1)
                     ELSE commit_mapping[h] ]
            /\ previous_commit' = commit.hexsha
            /\ n' = n + 1
            /\ pc' = "loop"
       ELSE /\ pc' = "failed"
            /\ UNCHANGED << target_head, target_count, commit_mapping,
                            previous_commit, n >>
  /\ UNCHANGED << config_vars, commit, diff, fs, walk_pass, walk_stack, tagref,
                  tags_done, target_tags >>

\* the loop over the commits is over: replayCommitTags(...) is called
BeginTagReplay ==
  /\ pc = "loop"
  /\ commits_exhausted(n, num_commits)
  /\ pc' = "tags"
  /\ UNCHANGED << config_vars, n, commit, previous_commit, diff, fs, walk_pass,
                  walk_stack, target_count, target_head, commit_mapping, tagref,
                  tags_done, target_tags >>

\* one iteration of `for tagref in cloned_repo.tags`
ReplayTag(TagRefs) ==
  /\ pc = "tags"
  /\ Cardinality(tags_done) < num_tags
  /\ \E ref \in TagRefs :
       /\ ref.name \notin tags_done
       /\ tagref' = ref
       /\ tags_done' = tags_done \cup {ref.name}
       /\ LET result == ReplayOneTag(target_tags, ref, commit_mapping,
                                     authors_mapping, machine)
          IN /\ target_tags' = result.tags
             /\ pc' = IF result.raised THEN "failed" ELSE "tags"
  /\ UNCHANGED << config_vars, n, commit, previous_commit, diff, fs, walk_pass,
                  walk_stack, target_count, target_head, commit_mapping >>

\* every tag has been seen: replayCommits returns True
Finish ==
  /\ pc = "tags"
  /\ Cardinality(tags_done) = num_tags
  /\ pc' = "done"
  /\ UNCHANGED << config_vars, n, commit, previous_commit, diff, fs, walk_pass,
                  walk_stack, target_count, target_head, commit_mapping, tagref,
                  tags_done, target_tags >>

(***************************************************************************)
(* The inputs the specifications draw from.                                *)
(***************************************************************************)
Alice == [ name |-> <<"A">>, email |-> <<"a">> ]
Bob == [ name |-> <<"B">>, email |-> <<"b">> ]
Zed == [ name |-> <<"Z">>, email |-> <<"z">> ]

\* authors: nobody remapped, or Alice remapped to Zed
AuthorMaps ==
  { EmptyMap,
    [ k \in { IdentityKey(Alice.name, Alice.email) } |-> Zed ] }

Meta(author, committer, authored_date, author_tz, committed_date, committer_tz, message) ==
  [ author |-> author, committer |-> committer,
    authored_date |-> authored_date, author_tz_offset |-> author_tz,
    committed_date |-> committed_date, committer_tz_offset |-> committer_tz,
    message |-> message ]

\* one commit's metadata
PlainMetas == { Meta(Alice, Alice, 1700000000, 0, 1700000000, 0, <<"m", "\n">>) }

\* metadata differing in identities, offsets and message: messages as git
\* commit writes them, an empty one, and messages written by other tools (no
\* line end after the last line, white space at the end of a line)
Metas ==
  { Meta(Alice, Alice, 1700000000, 0, 1700000000, 0, <<"m", "\n">>),
    Meta(Alice, Bob, 1700000000, -7200, 1700000060, 3600, <<>>),
    Meta(Bob, Alice, 1700000000, 3600, 1700000060, -7200, <<" ", "m", "\n">>),
    Meta(Bob, Bob, 1700000000, -7200, 1700000000, -7200, <<"m">>),
    Meta(Bob, Bob, 1700000060, 0, 1700000060, 3600, <<"m", " ", "\n">>),
    Meta(Alice, Alice, 1700000060, 3600, 1700000000, 0,
         <<"m", "\n", "\n", "n", "\n">>) }

SecretPath == <<"s">>
NestedPath == <<"d", "%", "/", "a">>

TreePaths == { NestedPath, SecretPath, GITATTRIBUTES }
TreeContents == { <<"x", "x">>, <<"y">> }
FewPaths == { SecretPath, GITATTRIBUTES }
FewContents == { <<"y">> }

\* history_rename_files: none, {"-": "_"}, {"%": "#"}
RenameTables ==
  { <<>>, << << <<"-">>, <<"_">> >> >>, << << <<"%">>, <<"#">> >> >> }
FewRenameTables == { << << <<"%">>, <<"#">> >> >> }

\* history_delete_files: none, ["s"]
DeleteSets == { {}, {SecretPath} }

\* history_replace_file_contents: none, {"s": {"xx": "y"}}
ReplaceRules ==
  { EmptyMap,
    [ f \in {SecretPath} |-> << << <<"x", "x">>, <<"y">> >> >> ] }

\* the working directory of the process: empty, or holding a file "s"
WorkingDirectories ==
  { EmptyMap, [ f \in {SecretPath} |-> <<"x", "x">> ] }

TagNames == { <<"v", "1">>, <<"v", "2">> }

\* a lightweight tag on the first commit
PlainTagRefs ==
  { [ name |-> <<"v", "1">>, commit |-> SrcSha(0), is_commit |-> TRUE,
      annotated |-> FALSE, tag |-> NoTagObject ] }

\* the objects a tag can point at: a commit of the branch, a commit that is
\* not on the branch, a tree or a blob
TagTargets ==
  { [ commit |-> SrcSha(0), is_commit |-> TRUE ],
    [ commit |-> SrcSha(9), is_commit |-> TRUE ],
    [ commit |-> NoSha, is_commit |-> FALSE ] }

\* tag objects; the name inside the object is the name it was created under,
\* which is not the name of every reference pointing at it
TagObjects ==
  { [ tag |-> t, tagger |-> who, message |-> msg,
      tagged_date |-> 1700000000, tagger_tz_offset |-> -7200 ] :
      t \in TagNames, who \in {Alice, Bob}, msg \in { <<>>, <<"m", "\n">> } }

TagRefs ==
    { [ name |-> nm, commit |-> tg.commit, is_commit |-> tg.is_commit,
        annotated |-> FALSE, tag |-> NoTagObject ] : nm \in TagNames, tg \in TagTargets }
  \cup
    { [ name |-> nm, commit |-> tg.commit, is_commit |-> tg.is_commit,
        annotated |-> TRUE, tag |-> obj ] :
        nm \in TagNames, tg \in TagTargets, obj \in TagObjects }

(***************************************************************************)
(* Specifications.                                                         *)
(***************************************************************************)
Replay(M, Paths, Contents, Refs) ==
  \/ WriteGitattributes
  \/ Checkout(M, Paths, Contents)
  \/ RootCopy
  \/ WalkStep
  \/ SkipGitattributes
  \/ ChangeAMT
  \/ ChangeD
  \/ ChangeR
  \/ ChangeOther
  \/ CreateCommit
  \/ BeginTagReplay
  \/ ReplayTag(Refs)
  \/ Finish

\* the replay of the trees: every transform rule, one shape of metadata
Init ==
  InitWith(RenameTables, DeleteSets, ReplaceRules, {EmptyMap},
           [ local_tz : {0}, tz_hour_limit : {TRUE} ],
           1..MaxCommits, {1}, WorkingDirectories)

Next == Replay(PlainMetas, TreePaths, TreeContents, PlainTagRefs)

Spec == Init /\ [][Next]_vars

\* the replay of the metadata of the commits: few trees
InitMeta ==
  InitWith(FewRenameTables, {{}}, {EmptyMap}, AuthorMaps,
           [ local_tz : {0, -7200}, tz_hour_limit : BOOLEAN ],
           1..MaxCommits, {1}, {EmptyMap})

NextMeta == Replay(Metas, FewPaths, FewContents, PlainTagRefs)

SpecMeta == InitMeta /\ [][NextMeta]_vars

\* the replay of the tags
InitTags ==
  InitWith(FewRenameTables, {{}}, {EmptyMap}, AuthorMaps,
           [ local_tz : {0}, tz_hour_limit : BOOLEAN ],
           1..MaxCommits, 0..MaxTags, {EmptyMap})

NextTags == Replay(PlainMetas, FewPaths, FewContents, TagRefs)

SpecTags == InitTags /\ [][NextTags]_vars

\* a whole run of `migrate`: the command line, the branches of the origin,
\* the configuration file, and what an earlier run left in the two directories
BranchNames == { "master", "dev" }

ConfigFiles ==
  { ConfigFile(FALSE, {}, EmptyMap, EmptyMap, {}, EmptyMap, KW_DEFAULT, <<>>) }
    \cup { ConfigFile(TRUE, keys, [ k \in { IdentityKey(Alice.name, Alice.email) } |-> Zed ],
                      << << <<"%">>, <<"#">> >> >>, {SecretPath}, EmptyMap,
                      patterns, << <<"c">> >>) :
             keys \in { {}, {"authors"}, {"lfs_patterns", "extra_lfs_patterns"},
                        AllConfigKeys },
             patterns \in {KW_NONE, <<"c">>} }

StaleDirectories ==
  { EmptyMap,
    [ p \in { join(target_repo_path, <<"o">>) } |-> <<"y">> ],
    [ p \in { join(cloned_repo_path, <<"o">>) } |-> <<"y">> ] }

InitMain ==
  /\ branch_name \in BranchNames
  /\ origin_branches \in { {"master"}, BranchNames }
  /\ origin_head \in origin_branches
  /\ cloned_branches = {}
  /\ config_file \in ConfigFiles
  /\ files_to_rename = EmptyMap
  /\ files_to_rename_bound = FALSE
  /\ files_to_delete = {}
  /\ files_to_replace = EmptyMap
  /\ authors_mapping = EmptyMap
  /\ git_attributes_contents = <<>>
  /\ machine \in [ local_tz : {0}, tz_hour_limit : {TRUE} ]
  /\ num_commits \in 1..MaxCommits
  /\ num_tags = 1
  /\ pc = "main"
  /\ fs \in StaleDirectories
  /\ NothingReplayed
  /\ NothingMerged
  /\ NothingClassified
  /\ NothingAnalyzed

NextMain ==
  \/ MainLoadConfig
  \/ CheckRequirements
  \/ InitRepositories
  \/ CallReplayCommits
  \/ Replay(PlainMetas, FewPaths, FewContents, PlainTagRefs)

SpecMain == InitMain /\ [][NextMain]_vars

(***************************************************************************)
(* gitAttributesMergeDumb on its own: every base, block and separator of a *)
(* small alphabet, merged once and then a second time into the result.     *)
(***************************************************************************)
MaxText == 3

\* the texts of at most k characters over an alphabet
Texts(alphabet, k) == UNION { [1..m -> alphabet] : m \in 0..k }

\* no migration is running
NoMigration ==
  /\ files_to_rename = EmptyMap
  /\ files_to_delete = {}
  /\ files_to_replace = EmptyMap
  /\ authors_mapping = EmptyMap
  /\ git_attributes_contents = <<>>
  /\ machine = [ local_tz |-> 0, tz_hour_limit |-> TRUE ]
  /\ num_commits = 0
  /\ num_tags = 0
  /\ branch_name = "master"
  /\ origin_branches = {"master"}
  /\ origin_head = "master"
  /\ cloned_branches = {}
  /\ config_file = ConfigFile(FALSE, {}, EmptyMap, EmptyMap, {}, EmptyMap, KW_DEFAULT, <<>>)
  /\ files_to_rename_bound = FALSE
  /\ fs = EmptyMap
  /\ NothingReplayed

MergeDumb ==
  /\ pc = "merge"
  /\ merged' = gitAttributesMergeDumb(contents1, contents2, separator)
  /\ pc' = "merged"
  /\ UNCHANGED << files_to_rename, files_to_delete, files_to_replace,
                  authors_mapping, git_attributes_contents, machine, num_commits,
                  num_tags, main_vars, contents1, contents2, separator,
                  classify_vars, analysis_vars, replay_vars >>

\* the same block merged into the result of the first merge
MergeDumbAgain ==
  /\ pc = "merged"
  /\ merged' = gitAttributesMergeDumb(merged, contents2, separator)
  /\ pc' = "merged twice"
  /\ UNCHANGED << files_to_rename, files_to_delete, files_to_replace,
                  authors_mapping, git_attributes_contents, machine, num_commits,
                  num_tags, main_vars, contents1, contents2, separator,
                  classify_vars, analysis_vars, replay_vars >>

InitMerge ==
  /\ NothingClassified
  /\ NothingAnalyzed
  /\ contents1 \in Texts({"a", "b", "\n"}, MaxText)
  /\ contents2 \in Texts({"a", "b", "\n"}, MaxText)
  /\ separator \in { <<>>, <<"#">> }
  /\ merged = <<>>
  /\ pc = "merge"
  /\ NoMigration

NextMerge == MergeDumb \/ MergeDumbAgain

SpecMerge == InitMerge /\ [][NextMerge]_vars

(***************************************************************************)
(* looksBinary on its own: pattern lists, paths, sizes on both sides of    *)
(* the threshold, NUL bytes on both sides of the end of the read.          *)
(***************************************************************************)
Classify ==
  /\ pc = "classify"
  /\ looks_binary' = looksBinary(lfs_patterns, file_name, file_size, read_stream)
  /\ pc' = "classified"
  /\ UNCHANGED << files_to_rename, files_to_delete, files_to_replace,
                  authors_mapping, git_attributes_contents, machine, num_commits,
                  num_tags, main_vars, merge_vars, lfs_patterns, file_name,
                  file_size, read_stream, analysis_vars, replay_vars >>

InitClassify ==
  /\ lfs_patterns \in
       { <<>>, getPatternsFromPatternMultiline(GITATTRIBUTES_DEFAULT_LFS_PATTERNS),
         << <<"s">>, <<"?", ".", "c">> >> }
  /\ file_name \in { <<"s">>, <<"x", ".", "b">>, <<"d", "/", "x", ".", "c">> }
  /\ file_size \in { 10, lfs_size_threshold - 1, lfs_size_threshold,
                      2 * lfs_size_threshold }
  /\ read_stream \in SUBSET { offset \in { 0, ReadSize - 1, ReadSize } :
                                offset < file_size }
  /\ looks_binary = FALSE
  /\ pc = "classify"
  /\ NoMigration
  /\ NothingMerged
  /\ NothingAnalyzed

NextClassify == Classify

SpecClassify == InitClassify /\ [][NextClassify]_vars

(***************************************************************************)
(* The analyzer: mainAnalyzeRepo and analyzeGitRepository over a history   *)
(* of trees of blobs; a blob is given by its size and the offsets of its   *)
(* NUL bytes.                                                              *)
(***************************************************************************)
\* blobs that look textual or binary, and blobs whose sizes add up to the
\* threshold of the size warning and to one byte more
Blobs ==
  { [ size |-> 10, nuls |-> {} ], [ size |-> 10, nuls |-> {0} ],
    [ size |-> AggregatedSizeLimit - 10, nuls |-> {} ],
    [ size |-> AggregatedSizeLimit - 9, nuls |-> {} ] }

AnalyzedPaths == { <<"s">>, <<"x", ".", "b">> }

SourceTrees == UNION { [ present -> Blobs ] : present \in SUBSET AnalyzedPaths }

\* the trees a commit can follow a tree with: one path added, modified or
\* deleted, nothing changed, or one file moved to a free path
NextTrees(tree) ==
  { t \in SourceTrees :
      \/ Cardinality({ q \in AnalyzedPaths :
                         \/ (q \in DOMAIN tree) # (q \in DOMAIN t)
                         \/ q \in DOMAIN tree /\ q \in DOMAIN t /\ tree[q] # t[q] }) <= 1
      \/ \E q \in DOMAIN tree, r \in DOMAIN t :
           /\ DOMAIN t = (DOMAIN tree \ {q}) \cup {r}
           /\ r \notin DOMAIN tree
           /\ t[r] = tree[q]
           /\ \A o \in DOMAIN tree \ {q} : t[o] = tree[o] }

\* an entry of what the pass goes through: a blob of the first tree, or a
\* change of a diff
Entry(change_type, a_path, b_path, blob) ==
  [ change_type |-> change_type, a_path |-> a_path, b_path |-> b_path,
    size |-> blob.size, nuls |-> blob.nuls ]

\* commit.tree.traverse(): the blobs of the tree
TreeEntries(tree) ==
  { Entry("blob", q, q, tree[q]) : q \in DOMAIN tree }

\* previous_commit.diff(commit): git pairs a deleted and an added path that
\* hold the same blob as a rename
DiffEntries(old, new) ==
  LET gone == DOMAIN old \ DOMAIN new
      come == DOMAIN new \ DOMAIN old
      renamed == { pair \in gone \X come : old[pair[1]] = new[pair[2]] }
  IN IF renamed # {}
       THEN { Entry("R", pair[1], pair[2], new[pair[2]]) : pair \in renamed }
     ELSE { Entry("A", q, q, new[q]) : q \in come }
            \cup { Entry("D", q, q, old[q]) : q \in gone }
            \cup { Entry("M", q, q, new[q]) :
                     q \in { o \in DOMAIN old \cap DOMAIN new : old[o] # new[o] } }

\* the identity table entries of a commit
Identities(c) ==
  [ k \in { IdentityKey(c.author.name, c.author.email),
            IdentityKey(c.committer.name, c.committer.email) } |->
      IF k = IdentityKey(c.committer.name, c.committer.email)
        THEN [ name |-> c.committer.name, email |-> c.committer.email ]
        ELSE [ name |-> c.author.name, email |-> c.author.email ] ]

\* the configuration mainAnalyzeRepo writes: the report of the analysis with
\* the authors and the preserved keys of the file that was there
WrittenConfig(authors, files, patterns, prior) ==
  LET preserved == { "lfs_patterns", "history_rename_files",
                     "history_replace_file_contents", "history_delete_files" }
      kept == IF prior.exists THEN preserved \cap prior.keys ELSE {}
      samples == { "history_rename_files", "history_replace_file_contents",
                   "history_delete_files" } \ kept
      Kept(key, default) == IF key \in kept THEN prior[key] ELSE default
  IN [ exists |-> TRUE,
       keys |-> { "authors", "warnings", "lfs_patterns", "extra_lfs_patterns" }
                  \cup kept
                  \cup { "sample:history_rename_files" : k \in samples \cap {"history_rename_files"} }
                  \cup { "sample:history_replace_file_contents" :
                           k \in samples \cap {"history_replace_file_contents"} }
                  \cup { "sample:history_delete_files" : k \in samples \cap {"history_delete_files"} },
       authors |-> IF prior.exists
                     THEN MergedAuthors(authors, ConfigGet(prior, "authors", EmptyMap))
                     ELSE authors,
       history_rename_files |-> Kept("history_rename_files", EmptyMap),
       history_delete_files |-> Kept("history_delete_files", {}),
       history_replace_file_contents |-> Kept("history_replace_file_contents", EmptyMap),
       lfs_patterns |-> Kept("lfs_patterns", KW_DEFAULT),
       extra_lfs_patterns |->
         sorted(CHOOSE list \in Perms({ f \in files : ~MatchesPattern(patterns, f) }) : TRUE) ]

\* mainAnalyzeRepo up to the loop of analyzeGitRepository: the pattern list,
\* the commits of the branch, the empty tables
AnalyzeStart ==
  /\ pc = "analyze"
  /\ lfs_patterns' =
       LET data == ConfigGet(config_file, "lfs_patterns", KW_DEFAULT)
       IN IF ~config_file.exists
            THEN getPatternsFromPatternMultiline(GITATTRIBUTES_DEFAULT_LFS_PATTERNS)
          ELSE IF IsList(data)
            THEN WithDefault(Tail(data),
                   getPatternsFromPatternMultiline(GITATTRIBUTES_DEFAULT_LFS_PATTERNS))
          ELSE Iterated(data)
  /\ authors_mapping' = EmptyMap
  /\ lfs_files' = {}
  /\ lfs_file_commit_count' = EmptyMap
  /\ lfs_aggregated_file_size' = EmptyMap
  /\ warnings' = {}
  \* repo.iter_commits(branch_name) fails on a name that is no branch
  /\ pc' = IF branch_name \in origin_branches THEN "analyze commits" ELSE "failed"
  /\ UNCHANGED << files_to_rename, files_to_delete, files_to_replace,
                  git_attributes_contents, machine, num_commits, num_tags,
                  main_vars, merge_vars, file_name, file_size, read_stream,
                  looks_binary, observed, replay_vars >>

\* the head of the loop over the commits: the two identities of the commit,
\* then its tree (first commit) or its diff against the previous commit
AnalyzeCommit ==
  /\ pc = "analyze commits"
  /\ n < num_commits
  /\ \E author \in {Alice, Bob},
        tree \in ( IF previous_commit = NoSha THEN SourceTrees ELSE NextTrees(commit.tree) ) :
       LET c == [ hexsha |-> SrcSha(n), author |-> author, committer |-> Alice,
                  tree |-> tree ]
           entries == IF previous_commit = NoSha THEN TreeEntries(tree)
                      ELSE DiffEntries(commit.tree, tree)
       IN /\ commit' = c
          /\ authors_mapping' = [ k \in DOMAIN authors_mapping \cup DOMAIN Identities(c) |->
                                    IF k \in DOMAIN Identities(c) THEN Identities(c)[k]
                                    ELSE authors_mapping[k] ]
          /\ observed' = [ observed EXCEPT
                             !.identities = @ \cup { c.author, c.committer } ]
          /\ diff' = CHOOSE list \in Perms(entries) : TRUE
          /\ IF entries = {}
               THEN /\ pc' = "analyze commits"
                    /\ n' = n + 1
                    /\ previous_commit' = c.hexsha
               ELSE /\ pc' = IF previous_commit = NoSha THEN "analyze tree"
                              ELSE "analyze diff"
                    /\ UNCHANGED << n, previous_commit >>
  /\ UNCHANGED << files_to_rename, files_to_delete, files_to_replace,
                  git_attributes_contents, machine, num_commits, num_tags,
                  main_vars, merge_vars, classify_vars, lfs_files,
                  lfs_file_commit_count, lfs_aggregated_file_size, warnings,
                  fs, walk_pass, walk_stack, target_count, target_head,
                  commit_mapping, tagref, tags_done, target_tags >>

\* one entry has been gone through: the next one, or the end of the body of
\* the loop (previous_commit = commit)
AnalyzeNext ==
  /\ diff' = Tail(diff)
  /\ IF Tail(diff) = <<>>
       THEN /\ pc' = "analyze commits"
            /\ n' = n + 1
            /\ previous_commit' = commit.hexsha
       ELSE UNCHANGED << pc, n, previous_commit >>
  /\ UNCHANGED << files_to_rename, files_to_delete, files_to_replace,
                  authors_mapping, git_attributes_contents, machine, num_commits,
                  num_tags, main_vars, merge_vars, classify_vars, commit, fs,
                  walk_pass, walk_stack, target_count, target_head,
                  commit_mapping, tagref, tags_done, target_tags >>

\* the counters of a revision that is counted
Counted(what) ==
  /\ lfs_aggregated_file_size' = Increased(lfs_aggregated_file_size, what.b_path, what.size)
  /\ lfs_file_commit_count' = Increased(lfs_file_commit_count, what.b_path, 1)
  /\ lfs_files' = lfs_files \cup {what.b_path}

\* the revision joins the revisions the pass has met
Observed(what) ==
  observed' = [ observed EXCEPT !.revisions = Append(@, what) ]

\* first commit: for blob in commit.tree.traverse()
AnalyzeBlob ==
  /\ pc = "analyze tree"
  /\ LET blob == Head(diff)
     IN /\ IF looksBinary(lfs_patterns, blob.b_path, blob.size, blob.nuls)
              THEN Counted(blob)
              ELSE UNCHANGED << lfs_files, lfs_file_commit_count,
                                lfs_aggregated_file_size >>
        /\ warnings' = warnings \cup detectSensitiveFiles(blob.b_path)
        /\ Observed(blob)
  /\ AnalyzeNext

\* later commits: for what in previous_commit.diff(commit)
AnalyzeChange ==
  /\ pc = "analyze diff"
  /\ LET what == Head(diff)
     IN IF what.change_type \in {"A", "M"}
          THEN /\ IF CountedAsLfs(lfs_files, lfs_patterns, what)
                    THEN Counted(what)
                    ELSE UNCHANGED << lfs_files, lfs_file_commit_count,
                                      lfs_aggregated_file_size >>
               /\ warnings' = warnings \cup detectSensitiveFiles(what.b_path)
               /\ Observed(what)
          ELSE UNCHANGED analysis_vars
  /\ AnalyzeNext

\* after the loop: the size warnings and the report, then mainAnalyzeRepo
\* merges the report with the file that was there and writes it
WriteConfig ==
  /\ pc = "analyze commits"
  /\ n = num_commits
  /\ warnings' = warnings \cup SizeWarnings(lfs_aggregated_file_size, lfs_file_commit_count)
  /\ config_file' = WrittenConfig(authors_mapping, lfs_files, lfs_patterns, config_file)
  /\ pc' = "analyzed"
  /\ UNCHANGED << files_to_rename, files_to_delete, files_to_replace,
                  authors_mapping, git_attributes_contents, machine, num_commits,
                  num_tags, branch_name, origin_branches, origin_head,
                  cloned_branches, files_to_rename_bound, merge_vars,
                  classify_vars, lfs_files, lfs_file_commit_count,
                  lfs_aggregated_file_size, observed, replay_vars >>

\* the configuration files an analysis can find
PriorConfigFiles ==
  { ConfigFile(FALSE, {}, EmptyMap, EmptyMap, {}, EmptyMap, KW_DEFAULT, <<>>) }
    \cup { ConfigFile(TRUE, keys, [ k \in { IdentityKey(Alice.name, Alice.email) } |-> Zed ],
                      << << <<"%">>, <<"#">> >> >>, {SecretPath},
                      [ f \in {SecretPath} |-> << << <<"x", "x">>, <<"y">> >> >> ],
                      KW_NONE, << <<"c">> >>) :
             keys \in { {"authors"}, AllConfigKeys \ {"authors"}, AllConfigKeys } }

InitAnalyze ==
  /\ files_to_rename = EmptyMap
  /\ files_to_delete = {}
  /\ files_to_replace = EmptyMap
  /\ authors_mapping = EmptyMap
  /\ git_attributes_contents = <<>>
  /\ machine = [ local_tz |-> 0, tz_hour_limit |-> TRUE ]
  /\ num_commits \in 1..MaxCommits
  /\ num_tags = 0
  /\ branch_name \in BranchNames
  /\ origin_branches = {"master"}
  /\ origin_head = "master"
  /\ cloned_branches = {}
  /\ config_file \in PriorConfigFiles
  /\ files_to_rename_bound = FALSE
  /\ fs = EmptyMap
  /\ pc = "analyze"
  /\ NothingReplayed
  /\ NothingMerged
  /\ NothingClassified
  /\ NothingAnalyzed

NextAnalyze ==
  \/ AnalyzeStart
  \/ AnalyzeCommit
  \/ AnalyzeBlob
  \/ AnalyzeChange
  \/ WriteConfig

SpecAnalyze == InitAnalyze /\ [][NextAnalyze]_vars

\* an analysis with no configuration file, with one that has no lfs_patterns,
\* and with one of each value of lfs_patterns: the two keywords, a glob, and
\* lists of the keyword "default", bare tokens and a glob
InitPatterns ==
  /\ files_to_rename = EmptyMap
  /\ files_to_delete = {}
  /\ files_to_replace = EmptyMap
  /\ authors_mapping = EmptyMap
  /\ git_attributes_contents = <<>>
  /\ machine = [ local_tz |-> 0, tz_hour_limit |-> TRUE ]
  /\ num_commits \in 1..MaxCommits
  /\ num_tags = 0
  /\ branch_name = "master"
  /\ origin_branches = {"master"}
  /\ origin_head = "master"
  /\ cloned_branches = {}
  /\ config_file \in
         { ConfigFile(FALSE, {}, EmptyMap, EmptyMap, {}, EmptyMap, KW_DEFAULT, <<>>),
           ConfigFile(TRUE, {"authors"}, EmptyMap, EmptyMap, {}, EmptyMap, KW_DEFAULT, <<>>) }
         \cup { ConfigFile(TRUE, {"authors", "lfs_patterns"}, EmptyMap, EmptyMap, {},
                           EmptyMap, value, <<>>) :
                  value \in { KW_DEFAULT, KW_NONE, <<"*", ".", "c">>,
                              JsonList(<< KW_DEFAULT >>), JsonList(<< <<"c">> >>),
                              JsonList(<< <<"*", ".", "c">> >>),
                              JsonList(<< <<"*", ".", "c">>, KW_DEFAULT >>),
                              JsonList(<< KW_DEFAULT, <<"x", ".", "?">>,
                                          KW_DEFAULT >>) } }
  /\ files_to_rename_bound = FALSE
  /\ fs = EmptyMap
  /\ pc = "analyze"
  /\ NothingReplayed
  /\ NothingMerged
  /\ NothingClassified
  /\ NothingAnalyzed

SpecPatterns == InitPatterns /\ [][NextAnalyze]_vars

-----------------------------------------------------------------------------
\* The properties of the replay

\* a commit has just been created in the target for the source commit "commit"
Replayed == pc = "loop" /\ target_count > 0

\* the files of a tree other than the root attribute file
WithoutAttributes(tree) ==
  [ p \in DOMAIN tree \ {GITATTRIBUTES} |-> tree[p] ]

\* C1: for every path of the delete set and every replayed commit, the root
\* commit included, the tree committed to the target contains neither the
\* path nor its renamed counterpart
C1_DeleteSetInvariant ==
  target_count > 0 =>
    \A P \in files_to_delete :
      /\ P \notin DOMAIN target_head.tree
      /\ multireplace(P, files_to_rename) \notin DOMAIN target_head.tree

\* C2: with no rename, delete or replace rule, the tree of every replayed
\* commit equals the tree of its source commit, the root attribute file
\* left aside
C2_TreeReconstruction ==
  ( /\ Replayed
    /\ files_to_rename = <<>>
    /\ files_to_delete = {}
    /\ DOMAIN files_to_replace = {} ) =>
      WithoutAttributes(target_head.tree) = WithoutAttributes(ClonedTree(fs))

C5_AttributeFileOwnership ==
  Replayed =>
    /\ GITATTRIBUTES \in DOMAIN target_head.tree
    /\ target_head.tree[GITATTRIBUTES] =
         AttributeText(<<>>, git_attributes_contents)

C3_CommitMapping ==
  /\ pc \in {"tags", "done"} =>
       /\ DOMAIN commit_mapping = { SrcSha(i) : i \in 0..(num_commits - 1) }
       /\ target_count = num_commits
  /\ \A i \in 0..(n - 1) :
       /\ SrcSha(i) \in DOMAIN commit_mapping
       /\ commit_mapping[SrcSha(i)] = DstSha(i + 1)
  /\ target_count = n
  /\ Replayed =>
       /\ target_head.message = commit.message
       /\ commit_mapping[commit.hexsha] = DstSha(target_count)

\* C6: the author and the committer of every replayed commit are the values
\* of authors_mapping for the original identity key when the table has the
\* key, and the original name and email otherwise
C6_IdentitySubstitution ==
  Replayed =>
    LET author_key == commit.author.name \o <<" ", "<">> \o commit.author.email \o <<">">>
        committer_key == commit.committer.name \o <<" ", "<">>
                           \o commit.committer.email \o <<">">>
        author == IF author_key \in DOMAIN authors_mapping
                    THEN authors_mapping[author_key] ELSE commit.author
        committer == IF committer_key \in DOMAIN authors_mapping
                       THEN authors_mapping[committer_key] ELSE commit.committer
    IN /\ target_head.author_name = author.name
       /\ target_head.author_email = author.email
       /\ target_head.committer_name = committer.name
       /\ target_head.committer_email = committer.email

\* a commit whose author is in the table and whose committer is not has been
\* replayed
C6_Witness ==
  /\ Replayed
  /\ IdentityKey(commit.author.name, commit.author.email) \in DOMAIN authors_mapping
  /\ IdentityKey(commit.committer.name, commit.committer.email) \notin DOMAIN authors_mapping
  /\ target_head.author_name # commit.author.name
  /\ target_head.committer_name = commit.committer.name

\* C7: the authored and committed timestamps of every replayed commit, and
\* their timezone offsets, are those of the source commit
C7_TimestampPreservation ==
  Replayed =>
    /\ target_head.authored_date = commit.authored_date
    /\ target_head.author_tz_offset = commit.author_tz_offset
    /\ target_head.committed_date = commit.committed_date
    /\ target_head.committer_tz_offset = commit.committer_tz_offset

\* C8: an annotated tag of the clone whose commit is mapped is in the target,
\* under its name, an annotated tag on the mapped commit, with the tagger
\* substituted through authors_mapping and the message, the timestamp and
\* the timezone offset of the original tag
C8_AnnotatedTagReplay ==
  ( tagref.annotated /\ TargetHexsha(tagref, commit_mapping) # NoSha ) =>
    /\ tagref.name \in DOMAIN target_tags
    /\ LET created == target_tags[tagref.name]
           tag == tagref.tag
           tagger_key == tag.tagger.name \o <<" ", "<">> \o tag.tagger.email \o <<">">>
       IN /\ created.annotated
          /\ created.object = TargetHexsha(tagref, commit_mapping)
          /\ created.tagger = IF tagger_key \in DOMAIN authors_mapping
                                THEN authors_mapping[tagger_key] ELSE tag.tagger
          /\ created.message = tag.message
          /\ created.tagged_date = tag.tagged_date
          /\ created.tagger_tz_offset = tag.tagger_tz_offset

\* C9: every tag of the clone is resolved through commit_mapping; when its
\* target is a mapped commit a tag of the same name is in the target on the
\* mapped commit; otherwise no tag is created for it; and in neither case
\* does the run stop
C9_TagResolution ==
  [][ tags_done' # tags_done =>
        LET ref == tagref'
            target_hexsha == TargetHexsha(ref, commit_mapping)
        IN /\ pc' # "failed"
           /\ IF target_hexsha # NoSha
                THEN /\ ref.name \in DOMAIN target_tags'
                     /\ target_tags'[ref.name].object = target_hexsha
                ELSE target_tags' = target_tags ]_vars

\* C10: when the tags are looked up commit_mapping has an entry for every
\* commit of the source sequence; the commits are replayed one by one from
\* the oldest to the newest; and an entry of commit_mapping, once made, stays
C10_PhaseOrdering ==
  /\ [](pc = "tags" =>
          \A i \in 0..(num_commits - 1) : SrcSha(i) \in DOMAIN commit_mapping)
  /\ [](tagref # NoTagRef => pc \in {"tags", "done", "failed"})
  /\ [][ /\ \A h \in DOMAIN commit_mapping :
              h \in DOMAIN commit_mapping' /\ commit_mapping'[h] = commit_mapping[h]
         /\ commit_mapping' # commit_mapping =>
              /\ DOMAIN commit_mapping = { SrcSha(i) : i \in 0..(n - 1) }
              /\ DOMAIN commit_mapping' = DOMAIN commit_mapping \cup {SrcSha(n)}
              /\ commit.hexsha = SrcSha(n)
              /\ n' = n + 1
         /\ pc \in {"tags", "done"} => commit_mapping' = commit_mapping ]_vars

\* the tags are about to be looked up after a sequence of several commits
C10_Witness ==
  /\ pc = "tags"
  /\ tags_done = {}
  /\ num_commits >= 2
  /\ Cardinality(DOMAIN commit_mapping) = num_commits

\* the change types the replay has a handler for
ModelledChangeTypes == {"A", "M", "T", "D", "R"}

\* the run has stopped on a failure while it replayed commits[n]
FailedInCommitPass == pc = "failed" /\ tags_done = {}

\* C11: a diff entry of a change type other than Added, Modified,
\* TypeChanged, Deleted or Renamed stops the run with a failure
C11_FatalOnUnmodelledChange ==
  [][ ( pc = "diff" /\ Head(diff).change_type \notin ModelledChangeTypes ) =>
        pc' = "failed" ]_vars

\* C11 as the replay keeps it: a diff entry of another change type whose
\* original path is not the attribute file stops the run with a failure (an
\* entry whose original path is the attribute file is skipped before its
\* change type is looked at); and when the run fails while it replays commit
\* k, whatever the cause, no target commit is created for commit k,
\* commit_mapping has entries for the commits before k only, nothing runs
\* afterwards, no tag is looked up and the run never reaches its end
C11_FatalAbort ==
  /\ [][ ( /\ pc = "diff"
           /\ Head(diff).change_type \notin ModelledChangeTypes
           /\ Head(diff).a_path # GITATTRIBUTES ) => pc' = "failed" ]_vars
  /\ [][ pc' = "failed" =>
           /\ target_count' = target_count
           /\ commit_mapping' = commit_mapping
           /\ n' = n ]_vars
  /\ [][ pc # "failed" ]_vars
  /\ [](FailedInCommitPass =>
          /\ n < num_commits
          /\ target_count = n
          /\ DOMAIN commit_mapping = { SrcSha(i) : i \in 0..(n - 1) }
          /\ tagref = NoTagRef
          /\ target_tags = EmptyMap)

\* the second commit holds an entry of an unmodelled change type and the run
\* has failed on it, with the first commit replayed
C11_Witness ==
  /\ FailedInCommitPass
  /\ n = 1
  /\ target_count = 1
  /\ diff # <<>>
  /\ Head(diff).change_type \notin ModelledChangeTypes
  /\ Head(diff).a_path # GITATTRIBUTES
  /\ SrcSha(1) \notin DOMAIN commit_mapping

\* the entry of the diff that is being replayed is a rename of a kept file
\* to a path of the delete set
RenamedIntoDeleteSet ==
  /\ pc = "diff"
  /\ Head(diff).change_type = "R"
  /\ Head(diff).a_path # GITATTRIBUTES
  /\ Head(diff).a_path \notin files_to_delete
  /\ Head(diff).b_path \in files_to_delete

\* C17: a rename into the delete set: the file is moved and then removed, so
\* that neither the old nor the new target path exists afterwards, and the
\* step completes without an error (the run goes on to create the commit).
C17_RenamedIntoDeleteSet ==
  [][ RenamedIntoDeleteSet =>
        /\ pc' # "failed"
        /\ ~exists(fs', join(target_repo_path,
                             multireplace(Head(diff).a_path, files_to_rename)))
        /\ ~exists(fs', join(target_repo_path,
                             multireplace(Head(diff).b_path, files_to_rename))) ]_vars

RECURSIVE AppliedInOrder(_, _)
\* the blob with every (search, replacement) pair applied, in order
AppliedInOrder(blob, pairs) ==
  IF pairs = <<>> THEN blob
  ELSE AppliedInOrder(StrReplace(blob, Head(pairs)[1], Head(pairs)[2]), Tail(pairs))

\* C18: content replacement applies in every commit: for every path that has
\* replace rules and is not in the delete set, in every replayed commit (the
\* root commit as well as later ones) where the source tree has the path, the
\* target tree has, at the renamed path, the source blob with the pairs
\* applied in order.
C18_ContentReplacement ==
  Replayed =>
    \A p \in DOMAIN files_to_replace :
      ( p \notin files_to_delete /\ p \in DOMAIN ClonedTree(fs) ) =>
        /\ multireplace(p, files_to_rename) \in DOMAIN target_head.tree
        /\ target_head.tree[multireplace(p, files_to_rename)] =
             AppliedInOrder(ClonedTree(fs)[p], files_to_replace[p])

-----------------------------------------------------------------------------
\* The properties of a whole run of migrate

\* C12: a configuration error aborts before any mutation: when the branch is
\* absent from the origin, migrate exits with a failure before the clone or
\* the target directory is removed, created or written; when the branch
\* exists among several, the migration goes on and replays the named branch:
\* replayCommits lists the commits of that branch and enters its loop.
C12_ConfigurationErrors ==
  /\ [][ ( pc = "requirements" /\ branch_name \notin origin_branches ) =>
           pc' = "exited" ]_vars
  /\ [][ ( pc = "main" \/ pc = "requirements" ) => fs' = fs ]_vars
  /\ []( pc = "exited" => /\ branch_name \notin origin_branches
                          /\ fs \in StaleDirectories )
  /\ [][ ( pc = "requirements" /\ branch_name \in origin_branches ) =>
           pc' = "init" ]_vars
  /\ [][ ( pc = "start" /\ branch_name \in origin_branches ) => pc' = "loop" ]_vars

\* what main hands to replayCommits for a key the configuration gives no value to
Defaulted(key) == ~config_file.exists \/ key \notin config_file.keys

\* C13: defaults when the configuration is absent: with no configuration
\* file, or with one that lacks some keys, main calls replayCommits (the run
\* goes on to replay every commit) with the default pattern set, an empty
\* author mapping and empty rename, delete and replace rules for whatever
\* the configuration does not give.
C13_DefaultsWhenAbsent ==
  /\ [][ pc = "call" => pc' = "start" ]_vars
  /\ []( pc = "start" =>
           /\ Defaulted("authors") => authors_mapping = EmptyMap
           /\ Defaulted("history_rename_files") => files_to_rename = EmptyMap
           /\ Defaulted("history_delete_files") => files_to_delete = {}
           /\ Defaulted("history_replace_file_contents") => files_to_replace = EmptyMap
           /\ ( Defaulted("lfs_patterns") /\ Defaulted("extra_lfs_patterns") ) =>
                git_attributes_contents = DefaultAttributes )

-----------------------------------------------------------------------------
\* The properties of the attribute text merge

\* the members of a list
Members(list) == { list[i] : i \in 1..Len(list) }

\* the non-empty lines of the block that are no complete line of the base
MissingLines ==
  { line \in Members(split(contents2, "\n")) :
      line # <<>> /\ line \notin Members(split(contents1, "\n")) }

\* what the merge appended to the base
Appended == SubSeq(merged, Len(contents1) + 1, Len(merged))

\* the lines that follow the separator in what the merge appended
AppendedLines ==
  LET head == <<"\n">> \o separator \o <<"\n">>
      lines == split(SubSeq(Appended, Len(head) + 1, Len(Appended)), "\n")
  IN SubSeq(lines, 1, Len(lines) - 1)

\* C19: the attribute text merge: the result starts with the base unchanged;
\* every non-empty line of the block that is no complete line of the base is
\* a complete line of the result, among the sorted lines that follow the
\* separator; when every block line is already a base line the result is the
\* base unchanged; and merging the same block a second time changes nothing.
C19_AttributeTextMerge ==
  /\ []( pc = "merged" =>
           /\ SubSeq(merged, 1, Len(contents1)) = contents1
           /\ MissingLines = {} => merged = contents1
           /\ MissingLines # {} =>
                /\ MissingLines \subseteq Members(AppendedLines)
                /\ \A i \in 1..(Len(AppendedLines) - 1) :
                      StrLessEq(AppendedLines[i], AppendedLines[i + 1]) )
  /\ [][ pc = "merged" => merged' = merged ]_vars

-----------------------------------------------------------------------------
\* The properties of the analyzer

\* C14: the classifier decision: looksBinary returns true exactly when the
\* path matches some pattern of the list, or the size is at least 1 MiB
\* (1048576 bytes, the boundary included), or the first 1024 bytes hold a NUL
\* byte; a pattern match gives true whatever the size and the content, and a
\* file under 1 MiB that matches no pattern and whose NUL bytes all lie
\* after the first 1024 bytes gives false.
C14_ClassifierDecision ==
  pc = "classified" =>
    /\ looks_binary <=>
         \/ \E i \in 1..Len(lfs_patterns) : fnmatch(file_name, lfs_patterns[i])
         \/ file_size >= 1048576
         \/ \E offset \in read_stream : offset <= 1023
    /\ ( \E i \in 1..Len(lfs_patterns) : fnmatch(file_name, lfs_patterns[i]) )
         => looks_binary
    /\ ( /\ file_size < 1048576
         /\ \A offset \in read_stream : offset >= 1024
         /\ \A i \in 1..Len(lfs_patterns) : ~fnmatch(file_name, lfs_patterns[i]) )
         => ~looks_binary

\* a small file without NUL bytes that matches a pattern has been classified
C14_Witness ==
  /\ pc = "classified"
  /\ file_size = 10
  /\ read_stream = {}
  /\ \E i \in 1..Len(lfs_patterns) : fnmatch(file_name, lfs_patterns[i])
  /\ looks_binary

\* the entry the pass is at is a later Added or Modified revision of a path
\* that has been classified
RevisionOfClassifiedPath ==
  /\ pc = "analyze diff"
  /\ Head(diff).change_type \in {"A", "M"}
  /\ Head(diff).b_path \in lfs_files

\* C15: monotonic classification: during the pass the set of classified
\* paths only grows, and once a path has been classified every later Added
\* or Modified revision of it is counted: its touch count rises by one and
\* its aggregated size by the size of the blob, even when the revision
\* matches no pattern, is under 1 MiB and holds no NUL byte.
C15_MonotonicClassification ==
  /\ [][ lfs_files \subseteq lfs_files' ]_vars
  /\ [][ RevisionOfClassifiedPath =>
           /\ Count(lfs_file_commit_count', Head(diff).b_path) =
                Count(lfs_file_commit_count, Head(diff).b_path) + 1
           /\ Count(lfs_aggregated_file_size', Head(diff).b_path) =
                Count(lfs_aggregated_file_size, Head(diff).b_path) + Head(diff).size
           /\ Head(diff).b_path \in lfs_files' ]_vars

\* the last revision the pass met looks textual and was counted, its path
\* having been classified before
C15_Witness ==
  /\ observed.revisions # <<>>
  /\ LET last == observed.revisions[Len(observed.revisions)]
     IN /\ last.change_type \in {"A", "M"}
        /\ ~looksBinary(lfs_patterns, last.b_path, last.size, last.nuls)
        /\ last.b_path \in lfs_files
        /\ Count(lfs_file_commit_count, last.b_path) >= 2
        /\ Count(lfs_aggregated_file_size, last.b_path) > last.size

\* the keys of a prior configuration that an analysis has to keep
PreservedKeys ==
  { "lfs_patterns", "history_rename_files", "history_delete_files",
    "history_replace_file_contents" }

\* the step is the one that writes the configuration over a prior file
WritesOverPriorConfig ==
  /\ pc = "analyze commits"
  /\ pc' = "analyzed"
  /\ config_file.exists

\* C16: the configuration merge preserves the overrides of the user: when an
\* analysis runs with a configuration file in place, the configuration it
\* writes has every authors entry of the prior file with its prior value,
\* the prior values of lfs_patterns, history_rename_files,
\* history_delete_files and history_replace_file_contents whenever the prior
\* file had those keys, and an identity entry that maps to itself for every
\* author or committer met in the history that the prior file did not list.
C16_ConfigMergePreserves ==
  [][ WritesOverPriorConfig =>
        LET prior_authors == IF "authors" \in config_file.keys
                               THEN config_file.authors ELSE EmptyMap
        IN /\ "authors" \in config_file'.keys
           /\ \A k \in DOMAIN prior_authors :
                /\ k \in DOMAIN config_file'.authors
                /\ config_file'.authors[k] = prior_authors[k]
           /\ \A key \in PreservedKeys \cap config_file.keys :
                /\ key \in config_file'.keys
                /\ config_file'[key] = config_file[key]
           /\ \A id \in observed.identities :
                IdentityKey(id.name, id.email) \notin DOMAIN prior_authors =>
                  /\ IdentityKey(id.name, id.email) \in DOMAIN config_file'.authors
                  /\ config_file'.authors[IdentityKey(id.name, id.email)] = id ]_vars

\* a configuration has been written that keeps the mapping of Alice and the
\* delete set of the prior file and has the identity entry of Bob, whom the
\* prior file did not list
C16_Witness ==
  /\ pc = "analyzed"
  /\ Alice \in observed.identities
  /\ Bob \in observed.identities
  /\ config_file.authors[IdentityKey(Alice.name, Alice.email)] = Zed
  /\ config_file.authors[IdentityKey(Bob.name, Bob.email)] = Bob
  /\ "history_delete_files" \in config_file.keys
  /\ config_file.history_delete_files = {SecretPath}
  /\ config_file.lfs_patterns = KW_NONE

RECURSIVE SumSizes(_)
\* the sum of the sizes of a list of revisions
SumSizes(revisions) ==
  IF revisions = <<>> THEN 0 ELSE Head(revisions).size + SumSizes(Tail(revisions))

\* the revisions of a path that the pass met, in order
RevisionsOf(path) ==
  LET OfPath(what) == what.b_path = path
  IN SelectSeq(observed.revisions, OfPath)

\* the revisions of a path that the pass met from the first one on that
\* looksBinary classified
RevisionsSinceClassified(path) ==
  LET all == RevisionsOf(path)
      Classified(i) == looksBinary(lfs_patterns, all[i].b_path, all[i].size, all[i].nuls)
  IN IF \E i \in 1..Len(all) : Classified(i)
       THEN SubSeq(all, CHOOSE i \in 1..Len(all) :
                          Classified(i) /\ \A j \in 1..(i - 1) : ~Classified(j),
                   Len(all))
       ELSE <<>>

\* a size warning that names the path has been emitted
SizeWarned(path) ==
  \E w \in warnings : w.kind = "aggregated" /\ w.text = path

\* C20 as stated: the aggregated size warning: at the end of the pass, for
\* every classified path, the aggregated size is the sum of the blob sizes of
\* all the revisions of the path the pass met (its blob in the first tree
\* and every later Added or Modified revision), the touch count is the
\* number of those revisions, and a size warning names the path exactly when
\* the sum is greater than 50 MiB (52428800 bytes).
C20_AggregatedSizeOfAllRevisions ==
  pc = "analyzed" =>
    \A path \in lfs_files :
      /\ Count(lfs_aggregated_file_size, path) = SumSizes(RevisionsOf(path))
      /\ Count(lfs_file_commit_count, path) = Len(RevisionsOf(path))
      /\ SizeWarned(path) <=> SumSizes(RevisionsOf(path)) > 52428800

\* C20: the aggregated size warning: at the end of the pass, for every
\* classified path, the aggregated size is the sum of the blob sizes of the
\* revisions of the path the pass met from the first one it classified on,
\* the touch count is the number of those revisions, and a size warning
\* names the path exactly when that sum is greater than 50 MiB (52428800
\* bytes; a sum equal to the threshold gives no warning).
C20_AggregatedSizeSinceClassified ==
  pc = "analyzed" =>
    \A path \in lfs_files :
      /\ Count(lfs_aggregated_file_size, path) = SumSizes(RevisionsSinceClassified(path))
      /\ Count(lfs_file_commit_count, path) = Len(RevisionsSinceClassified(path))
      /\ SizeWarned(path) <=> SumSizes(RevisionsSinceClassified(path)) > 52428800

\* the pass has ended with a path whose two counted revisions add up to the
\* threshold exactly, and without a size warning for it
C20_Witness ==
  /\ pc = "analyzed"
  /\ \E path \in lfs_files :
       /\ Count(lfs_aggregated_file_size, path) = 52428800
       /\ Count(lfs_file_commit_count, path) = 2
       /\ ~SizeWarned(path)

\* the entry the engine is about to execute is a Deleted or a Renamed change
\* that it does not pass over: it unlinks or moves a path of the target
ActsOnTargetPath ==
  /\ pc = "diff"
  /\ Head(diff).a_path # GITATTRIBUTES
  /\ Head(diff).change_type \in {"D", "R"}
  /\ Head(diff).a_path \notin files_to_delete

\* C21: the replay never acts on a missing target file: whenever the engine
\* executes a Deleted or a Renamed change, the target path it unlinks or
\* moves (the target root joined with the renamed a_path) is a file of the
\* target tree at that moment; this includes a path that a source commit
\* renamed from a path of the delete set and that a later commit deletes or
\* renames again.
C21_NeverActsOnMissingFile ==
  ActsOnTargetPath =>
    isfile(fs, join(target_repo_path,
                    multireplace(Head(diff).a_path, files_to_rename)))

\* the target root joined with the rename rules applied to the relative
\* path only
RewrittenTargetPath(P) ==
  join(target_repo_path, multireplace(P, files_to_rename))

\* the passes over the root commit are over and its commit is to be created
RootPassesDone == pc = "commit" /\ previous_commit = NoSha

\* the step is the replay of an Added entry that is neither passed over nor
\* removed again by the delete set, and it does not raise
AddedPlaced ==
  /\ pc = "diff"
  /\ pc' # "failed"
  /\ Head(diff).change_type = "A"
  /\ Head(diff).a_path # GITATTRIBUTES
  /\ Head(diff).a_path \notin files_to_delete

\* C22: path rewriting is the same in the root commit and in later commits:
\* a file of original path P is placed at the target root joined with the
\* rename rules applied to the relative path P, both when P is in the tree
\* of the root commit (after its rename pass) and when a later Added change
\* brings P in.
C22_SamePathRewriting ==
  /\ [](RootPassesDone =>
          \A P \in DOMAIN ClonedTree(fs) :
            ( ~CopyTreeIgnored(P) /\ P \notin files_to_delete ) =>
              isfile(fs, RewrittenTargetPath(P)))
  /\ [][ AddedPlaced => isfile(fs', RewrittenTargetPath(Head(diff).a_path)) ]_vars

\* C23: the rename pass of the root commit leaves everything outside the
\* replayed content unchanged: when the passes over the root commit are over,
\* every file of the version-control metadata directory of the target is at
\* its original path with its original content, and the root attribute file
\* is at its path with the text the engine wrote.
C23_RootRenameFrame ==
  RootPassesDone =>
    /\ \A q \in DOMAIN InitialFs :
         isfile(fs, q) /\ fs[q] = InitialFs[q]
    /\ isfile(fs, join(target_repo_path, GITATTRIBUTES))
    /\ fs[join(target_repo_path, GITATTRIBUTES)] =
         AttributeText(<<>>, git_attributes_contents)

\* the patterns of the rules of an attribute text: of every line that is
\* neither empty nor a comment, what stands before the first blank
AttributePatterns(text) ==
  LET IsRule(line) == line # <<>> /\ Head(line) # "#"
      rules == SelectSeq(split(text, "\n"), IsRule)
  IN [ i \in 1..Len(rules) |-> Head(split(rules[i], " ")) ]

\* the paths a pass over the observed revisions holds as filter-managed
\* when it classifies with the default patterns, as a run with no
\* configuration file does
DefaultLfsFiles ==
  LET patterns == getPatternsFromPatternMultiline(GITATTRIBUTES_DEFAULT_LFS_PATTERNS)
  IN { observed.revisions[i].b_path :
         i \in { j \in 1..Len(observed.revisions) :
                   looksBinary(patterns, observed.revisions[j].b_path,
                               observed.revisions[j].size,
                               observed.revisions[j].nuls) } }

\* the step is the one that writes the configuration over a prior file whose
\* lfs_patterns is "default"
WritesOverDefaultPatterns ==
  /\ WritesOverPriorConfig
  /\ "lfs_patterns" \in config_file.keys
  /\ config_file.lfs_patterns = KW_DEFAULT

\* C24: the analyzer and migrate agree on the pattern set: for every value
\* of lfs_patterns in the configuration file, the list of patterns the
\* analyzer classifies paths with is the list of the patterns of the
\* attribute rules that migrate compiles from that value; and an analysis
\* over a configuration file whose lfs_patterns is "default" ends with the
\* filter-managed set and the extra_lfs_patterns that an analysis with no
\* configuration file computes, those of the default patterns.
C24_SamePatternSet ==
  /\ []( ( pc = "analyze commits" /\ config_file.exists ) =>
            lfs_patterns =
              AttributePatterns(gitAttributesLfsFromPatterns(
                ConfigGet(config_file, "lfs_patterns", KW_DEFAULT))) )
  /\ [][ WritesOverDefaultPatterns =>
           /\ lfs_files = DefaultLfsFiles
           /\ config_file'.extra_lfs_patterns =
                sorted(CHOOSE list \in Perms(
                  { f \in DefaultLfsFiles :
                      ~MatchesPattern(getPatternsFromPatternMultiline(
                                        GITATTRIBUTES_DEFAULT_LFS_PATTERNS), f) }) : TRUE) ]_vars
=============================================================================
